---- MODULE Spec2Model ----
(***************************************************************************)
(* DNA Sample Manager: the entity store behind the Flask API               *)
(* (src/src/dna_sample_manager/app.py) and the tube imports                *)
(* (src/reimport_tubes_boxes.py, src/import_tubes_from_mysql_v2.py),       *)
(* and the import of individuals (src/import_individuals.py).              *)
(*                                                                         *)
(* Values that travel through JSON bodies and table columns are modelled   *)
(* as tagged records [k, n, s]: k = "null" (None / NULL), "num" (a number, *)
(* in n) or "str" (a text, in s).  Volumes are whole microlitres.          *)
(* Texts are TLA+ strings, read character by character with SubSeq.        *)
(*                                                                         *)
(* The specifications share the variables: Spec (the volume ledger of the  *)
(* API), SpecImport (one run of the TSV import), SpecStore (the tube store *)
(* under the API and both imports), SpecPosition and SpecStatus (the       *)
(* position and status shown for a tube), SpecLinks (the links between     *)
(* the tables), SpecGrid and SpecFailing (the TSV import at the edge of    *)
(* the grid and over rows that cannot be stored), SpecRerun (an import     *)
(* stopped and run again), SpecBoxes and SpecSamples (the boxes and the    *)
(* samples the TSV import creates), SpecDump (the tuple parser of the      *)
(* MySQL import), SpecIndividuals (src/import_individuals.py), SpecLedger  *)
(* (withdrawals handled one at a time) and SpecThreads (withdrawals        *)
(* handled by two server threads).                                         *)
(***************************************************************************)
EXTENDS Integers, Sequences, FiniteSets, TLC

VARIABLES
    tubes,        \* table tube: id -> row
    usages,       \* table usage: the rows in insertion order
    boxes,        \* table box: id -> row
    individuals,  \* table individual: id -> row
    samples,      \* table sample: id -> row
    imp,          \* the run of reimport_tubes_boxes.py
    mysql,        \* the run of import_tubes_from_mysql_v2.py
    indrun,       \* the run of import_individuals.py
    inflight,     \* the create_usage requests the server threads are handling
    resp          \* the answer to the last API request

vars ==
    <<tubes, usages, boxes, individuals, samples, imp, mysql, indrun, inflight, resp>>

(***************************************************************************)
(* Bounds of the model.                                                    *)
(***************************************************************************)
MaxTubeId == 2
MaxUsages == 1
MaxRows == 3
MaxCol == 99
MaxBoxId == 1
MaxRuns == 2
MaxWithdrawals == 3
MaxThreads == 2

(***************************************************************************)
(* JSON / column values.                                                   *)
(***************************************************************************)
Null == [k |-> "null", n |-> 0, s |-> ""]
Num(i) == [k |-> "num", n |-> i, s |-> ""]
Str(t) == [k |-> "str", n |-> 0, s |-> t]

IsNone(v) == v.k = "null"

\* Python truth value of a JSON value: None, 0 and "" are falsy.
Truthy(v) == CASE v.k = "null" -> FALSE
               [] v.k = "num" -> v.n # 0
               [] v.k = "str" -> v.s # ""

\* dict.get(key): the value, None when the key is absent.
Get(data, key) == IF key \in DOMAIN data THEN data[key] ELSE Null

\* dict.get(key, default)
GetOr(data, key, default) == IF key \in DOMAIN data THEN data[key] ELSE default

Max(S) == CHOOSE m \in S : \A x \in S : x <= m

\* The rowid SQLite gives a new row of a table whose ids are `ids`.
NextId(ids) == IF ids = {} THEN 1 ELSE Max(ids) + 1

(***************************************************************************)
(* Texts.                                                                  *)
(***************************************************************************)
Digits == <<"0", "1", "2", "3", "4", "5", "6", "7", "8", "9">>
Letters == <<"A", "B", "C", "D", "E", "F", "G", "H", "I", "J", "K", "L", "M",
             "N", "O", "P", "Q", "R", "S", "T", "U", "V", "W", "X", "Y", "Z">>
LowerLetters == <<"a", "b", "c", "d", "e", "f", "g", "h", "i", "j", "k", "l", "m",
                  "n", "o", "p", "q", "r", "s", "t", "u", "v", "w", "x", "y", "z">>
Whitespace == {" ", "\t", "\n", "\r"}

CharAt(t, i) == SubSeq(t, i, i)

IndexIn(seq, c) == IF \E i \in DOMAIN seq : seq[i] = c
                   THEN CHOOSE i \in DOMAIN seq : seq[i] = c
                   ELSE 0

IsDigit(c) == IndexIn(Digits, c) # 0
DigitVal(c) == IndexIn(Digits, c) - 1

RECURSIVE LStrip(_)
LStrip(t) == IF Len(t) > 0 /\ CharAt(t, 1) \in Whitespace
             THEN LStrip(SubSeq(t, 2, Len(t)))
             ELSE t

RECURSIVE RStrip(_)
RStrip(t) == IF Len(t) > 0 /\ CharAt(t, Len(t)) \in Whitespace
             THEN RStrip(SubSeq(t, 1, Len(t) - 1))
             ELSE t

\* str.strip()
Strip(t) == RStrip(LStrip(t))

UpperChar(c) == IF IndexIn(LowerLetters, c) # 0
                THEN Letters[IndexIn(LowerLetters, c)]
                ELSE c

RECURSIVE Upper(_)
\* str.upper()
Upper(t) == IF Len(t) = 0 THEN ""
            ELSE UpperChar(CharAt(t, 1)) \o Upper(SubSeq(t, 2, Len(t)))

RECURSIVE AllDigits(_)
AllDigits(t) == IF Len(t) = 0 THEN TRUE
                ELSE IsDigit(CharAt(t, 1)) /\ AllDigits(SubSeq(t, 2, Len(t)))

RECURSIVE DigitsValue(_)
DigitsValue(t) == IF Len(t) = 0 THEN 0
                  ELSE 10 * DigitsValue(SubSeq(t, 1, Len(t) - 1))
                       + DigitVal(CharAt(t, Len(t)))

\* The text after an optional sign.
Unsigned(t) == IF Len(t) > 0 /\ CharAt(t, 1) \in {"+", "-"}
               THEN SubSeq(t, 2, Len(t))
               ELSE t

\* Whether int(t) succeeds: optional blanks, optional sign, one or more
\* decimal digits.
IsIntText(t) == LET u == Unsigned(Strip(t)) IN Len(u) > 0 /\ AllDigits(u)

\* int(t) for a text on which it succeeds ("01" is 1, "-5" is -5).
IntOfText(t) == LET st == Strip(t)
                    u == Unsigned(st)
                IN  IF Len(st) > 0 /\ CharAt(st, 1) = "-"
                    THEN 0 - DigitsValue(u)
                    ELSE DigitsValue(u)

\* float(v) of a JSON value: [ok |-> whether it succeeds, n |-> the number].
\* None raises TypeError, a text that is no number raises ValueError.
ToFloat(v) == CASE v.k = "num" -> [ok |-> TRUE, n |-> v.n]
                [] v.k = "str" -> IF IsIntText(v.s)
                                  THEN [ok |-> TRUE, n |-> IntOfText(v.s)]
                                  ELSE [ok |-> FALSE, n |-> 0]
                [] v.k = "null" -> [ok |-> FALSE, n |-> 0]

(***************************************************************************)
(* datetime.strptime(t, '%Y-%m-%d'): four digits of year, a month 1..12    *)
(* and a day 1..31 of one or two digits, separated by "-".                 *)
(***************************************************************************)
DayMonthOK(t, hi) == /\ Len(t) \in {1, 2}
                     /\ AllDigits(t)
                     /\ DigitsValue(t) \in 1..hi

IsDateText(t) ==
    /\ Len(t) >= 8
    /\ AllDigits(SubSeq(t, 1, 4))
    /\ CharAt(t, 5) = "-"
    /\ \E i \in 7..8 :
          /\ CharAt(t, i) = "-"
          /\ DayMonthOK(SubSeq(t, 6, i - 1), 12)
          /\ DayMonthOK(SubSeq(t, i + 1, Len(t)), 31)

\* str.lstrip(c) for a one-character c.
RECURSIVE LStripChar(_, _)
LStripChar(t, c) == IF Len(t) > 0 /\ CharAt(t, 1) = c
                    THEN LStripChar(SubSeq(t, 2, Len(t)), c)
                    ELSE t

\* str.rstrip(c) for a one-character c.
RECURSIVE RStripChar(_, _)
RStripChar(t, c) == IF Len(t) > 0 /\ CharAt(t, Len(t)) = c
                    THEN RStripChar(SubSeq(t, 1, Len(t) - 1), c)
                    ELSE t

\* str.replace(a, b) for one-character a and b.
RECURSIVE Replace(_, _, _)
Replace(t, a, b) ==
    IF Len(t) = 0 THEN ""
    ELSE (IF CharAt(t, 1) = a THEN b ELSE CharAt(t, 1))
         \o Replace(SubSeq(t, 2, Len(t)), a, b)

\* The place of the first "." of a text, 0 when it has none.
DotAt(t) == IF \E i \in 1..Len(t) : CharAt(t, i) = "."
            THEN CHOOSE i \in 1..Len(t) :
                     /\ CharAt(t, i) = "."
                     /\ \A j \in 1..(i - 1) : CharAt(t, j) # "."
            ELSE 0

WholePart(u) == IF DotAt(u) = 0 THEN u ELSE SubSeq(u, 1, DotAt(u) - 1)

FractionPart(u) == IF DotAt(u) = 0 THEN "" ELSE SubSeq(u, DotAt(u) + 1, Len(u))

\* Whether float(t) succeeds on a text: optional blanks and sign, digits with
\* at most one ".", one digit at least.
IsFloatText(t) ==
    LET u == Unsigned(Strip(t))
    IN  /\ AllDigits(WholePart(u))
        /\ AllDigits(FractionPart(u))
        /\ Len(WholePart(u)) + Len(FractionPart(u)) > 0

\* float(t) in whole microlitres: the texts of the model have no fractional
\* digits other than zeros.
FloatOfText(t) ==
    LET st == Strip(t)
        w == DigitsValue(WholePart(Unsigned(st)))
    IN  IF Len(st) > 0 /\ CharAt(st, 1) = "-" THEN 0 - w ELSE w

\* str(n) of a natural number.
RECURSIVE IntText(_)
IntText(n) == IF n < 10 THEN Digits[n + 1]
              ELSE IntText(n \div 10) \o Digits[(n % 10) + 1]

\* f"{n:0{width}d}" of a natural number: zero-padded on the left.
RECURSIVE ZeroPad(_, _)
ZeroPad(t, width) == IF Len(t) >= width THEN t ELSE ZeroPad("0" \o t, width)

Range(f) == {f[x] : x \in DOMAIN f}

(***************************************************************************)
(* The tube table.  A row is a record over TubeColumns; `tubes` maps the   *)
(* primary key to the row.                                                 *)
(***************************************************************************)
TubeColumns == {"barcode", "sample_id", "box_id", "position_row", "position_col",
                "concentration", "quality", "initial_volume", "current_volume",
                "source", "tube_type", "notes"}

\* Tube(...) as create_tube builds it from the request body.
NewTube(data) ==
    [barcode |-> Get(data, "barcode"),
     sample_id |-> Get(data, "sample_id"),
     box_id |-> Get(data, "box_id"),
     position_row |-> Get(data, "position_row"),
     position_col |-> Get(data, "position_col"),
     concentration |-> Get(data, "concentration"),
     quality |-> Get(data, "quality"),
     initial_volume |-> Get(data, "initial_volume"),
     current_volume |-> Get(data, "current_volume"),
     source |-> Get(data, "source"),
     tube_type |-> GetOr(data, "tube_type", Str("stock")),
     notes |-> Get(data, "notes")]

\* update_tube as it would be if setting initial_volume refilled the tube.
SetAttrs_RefillsOnInitial(tube, data) ==
    [c \in TubeColumns |->
        IF c \in DOMAIN data THEN data[c]
        ELSE IF c = "current_volume" /\ "initial_volume" \in DOMAIN data
             THEN data["initial_volume"]
             ELSE tube[c]]

\* The loop of update_tube: setattr for every listed key present in the body.
SetAttrs(tube, data) ==
    [c \in TubeColumns |-> IF c \in DOMAIN data THEN data[c] ELSE tube[c]]

\* barcode = db.Column(..., nullable=False)
BarcodeNotNull(ts) == \A i \in DOMAIN ts : ~IsNone(ts[i].barcode)

\* The table as it would be without the unique index on barcode.
BarcodeUnique_NoIndex(ts) == TRUE

\* barcode = db.Column(..., unique=True)
BarcodeUnique(ts) ==
    \A i, j \in DOMAIN ts : i # j => ts[i].barcode # ts[j].barcode

\* What the database accepts at commit; a violation raises IntegrityError.
TubeTableOK(ts) == BarcodeNotNull(ts) /\ BarcodeUnique(ts)

Put(f, key, val) == [x \in DOMAIN f \cup {key} |-> IF x = key THEN val ELSE f[x]]

Drop(f, key) == [x \in DOMAIN f \ {key} |-> f[x]]

\* tube.usages: the usage rows whose tube_id is this tube's id.
TubeUsages(id) == {u \in DOMAIN usages : usages[u].tube_id = Num(id)}

Reply(op, status, error) == [op |-> op, status |-> status, error |-> error]

\* No import script is running.
NoImport == [pc |-> "idle"]

NoMysql == [pc |-> "idle"]

NoIndividualsRun == [pc |-> "idle"]

\* The threads of the server (cli.py: threaded=True), none handling a request.
Threads == 1..MaxThreads

NoRequests == [th \in Threads |-> [pc |-> "idle"]]

\* No import script has its transaction open: one writer at a time.
Quiet == imp.pc \in {"idle", "start", "done", "failed"}
         /\ mysql.pc \in {"idle", "start", "done", "failed"}


(***************************************************************************)
(* POST /api/tubes                                                         *)
(***************************************************************************)
create_tube(data) ==
    IF \E i \in DOMAIN tubes : tubes[i].barcode = Get(data, "barcode")
    THEN /\ resp' = Reply("create_tube", 400, "barcode_exists")
         /\ UNCHANGED <<tubes, usages, boxes, individuals, samples, imp, mysql,
                        indrun, inflight>>
    ELSE LET ts == Put(tubes, NextId(DOMAIN tubes), NewTube(data))
         IN  IF TubeTableOK(ts)
             THEN /\ NextId(DOMAIN tubes) <= MaxTubeId
                  /\ tubes' = ts
                  /\ resp' = Reply("create_tube", 201, "")
                  /\ UNCHANGED <<usages, boxes, individuals, samples, imp,
                                 mysql, indrun, inflight>>
             ELSE /\ resp' = Reply("create_tube", 500, "IntegrityError")
                  /\ UNCHANGED <<tubes, usages, boxes, individuals, samples,
                                 imp, mysql, indrun, inflight>>

(***************************************************************************)
(* PUT /api/tubes/<id>                                                     *)
(***************************************************************************)
update_tube(id, data) ==
    IF id \notin DOMAIN tubes
    THEN /\ resp' = Reply("update_tube", 404, "not_found")
         /\ UNCHANGED <<tubes, usages, boxes, individuals, samples, imp, mysql,
                        indrun, inflight>>
    ELSE LET ts == [tubes EXCEPT ![id] = SetAttrs(tubes[id], data)]
         IN  IF TubeTableOK(ts)
             THEN /\ tubes' = ts
                  /\ resp' = Reply("update_tube", 200, "")
                  /\ UNCHANGED <<usages, boxes, individuals, samples, imp,
                                 mysql, indrun, inflight>>
             ELSE /\ resp' = Reply("update_tube", 500, "IntegrityError")
                  /\ UNCHANGED <<tubes, usages, boxes, individuals, samples,
                                 imp, mysql, indrun, inflight>>

(***************************************************************************)
(* DELETE /api/tubes/<id>                                                  *)
(***************************************************************************)
delete_tube(id) ==
    IF id \notin DOMAIN tubes
    THEN /\ resp' = Reply("delete_tube", 404, "not_found")
         /\ UNCHANGED <<tubes, usages, boxes, individuals, samples, imp, mysql,
                        indrun, inflight>>
    ELSE IF TubeUsages(id) # {}
         THEN /\ resp' = Reply("delete_tube", 400, "has_usages")
              /\ UNCHANGED <<tubes, usages, boxes, individuals, samples, imp,
                             mysql, indrun, inflight>>
         ELSE /\ tubes' = Drop(tubes, id)
              /\ resp' = Reply("delete_tube", 200, "")
              /\ UNCHANGED <<usages, boxes, individuals, samples, imp, mysql,
                             indrun, inflight>>

\* Tube.get_position_display as it would be if rows were lettered from 0.
get_position_display_FromZero(tube) ==
    IF Truthy(tube.position_row) /\ Truthy(tube.position_col)
    THEN Str((IF tube.position_row.n + 1 <= 26
              THEN Letters[tube.position_row.n + 1]
              ELSE IntText(tube.position_row.n + 1))
             \o IntText(tube.position_col.n))
    ELSE Null

\* Tube.get_position_display: chr(64 + row) is the row-th capital letter.
\* Rows and columns are positive here.
get_position_display(tube) ==
    IF Truthy(tube.position_row) /\ Truthy(tube.position_col)
    THEN Str((IF tube.position_row.n <= 26
              THEN Letters[tube.position_row.n]
              ELSE IntText(tube.position_row.n))
             \o IntText(tube.position_col.n))
    ELSE Null

\* Tube.get_status as it would be if the Low threshold were tested first.
get_status_LowFirst(tube) ==
    IF IsNone(tube.current_volume) \/ tube.current_volume.n <= 0
    THEN "Empty"
    ELSE IF Truthy(tube.initial_volume)
            /\ 4 * tube.current_volume.n < tube.initial_volume.n
         THEN "Low"
         ELSE IF tube.current_volume.n < 10 THEN "Critical" ELSE "Available"

\* Tube.get_status.  current_volume < initial_volume * 0.25 is written
\* 4 * current_volume < initial_volume.
get_status(tube) ==
    IF IsNone(tube.current_volume) \/ tube.current_volume.n <= 0
    THEN "Empty"
    ELSE IF tube.current_volume.n < 10
         THEN "Critical"
         ELSE IF Truthy(tube.initial_volume)
                 /\ 4 * tube.current_volume.n < tube.initial_volume.n
              THEN "Low"
              ELSE "Available"

\* Tube.to_dict, the fields that depend on the tube alone.
to_dict(id) ==
    [id |-> id,
     barcode |-> tubes[id].barcode,
     position_row |-> tubes[id].position_row,
     position_col |-> tubes[id].position_col,
     position_display |-> get_position_display(tubes[id]),
     initial_volume |-> tubes[id].initial_volume,
     current_volume |-> tubes[id].current_volume,
     status |-> get_status(tubes[id])]

\* The status filter as it would be if Available ignored initial_volume.
StatusFilter_AvailableAbove10(tube, status) ==
    CASE status = "Empty" ->
            IsNone(tube.current_volume) \/ tube.current_volume.n <= 0
      [] status = "Critical" ->
            /\ ~IsNone(tube.current_volume)
            /\ tube.current_volume.n > 0 /\ tube.current_volume.n < 10
      [] status = "Low" ->
            /\ ~IsNone(tube.current_volume) /\ tube.current_volume.n >= 10
            /\ ~IsNone(tube.initial_volume)
            /\ 4 * tube.current_volume.n < tube.initial_volume.n
      [] status = "Available" ->
            ~IsNone(tube.current_volume) /\ tube.current_volume.n >= 10
      [] OTHER -> TRUE

\* The WHERE clause _build_tubes_query adds for ?status=.  A comparison with
\* NULL is not true in SQL; any other value of status adds no clause.
StatusFilter(tube, status) ==
    CASE status = "Empty" ->
            IsNone(tube.current_volume) \/ tube.current_volume.n <= 0
      [] status = "Critical" ->
            /\ ~IsNone(tube.current_volume)
            /\ tube.current_volume.n > 0 /\ tube.current_volume.n < 10
      [] status = "Low" ->
            /\ ~IsNone(tube.current_volume) /\ tube.current_volume.n >= 10
            /\ ~IsNone(tube.initial_volume)
            /\ 4 * tube.current_volume.n < tube.initial_volume.n
      [] status = "Available" ->
            /\ ~IsNone(tube.current_volume) /\ tube.current_volume.n >= 10
            /\ \/ IsNone(tube.initial_volume)
               \/ 4 * tube.current_volume.n >= tube.initial_volume.n
      [] OTHER -> TRUE

\* The answer to a read request: the reply and the JSON it carries.
Answer(op, status, arg, body) ==
    [op |-> op, status |-> status, error |-> "", arg |-> arg, body |-> body]

(***************************************************************************)
(* GET /api/tubes/<id>                                                     *)
(***************************************************************************)
get_tube(id) ==
    /\ resp' = IF id \in DOMAIN tubes
               THEN Answer("get_tube", 200, id, to_dict(id))
               ELSE Answer("get_tube", 404, id, Null)
    /\ UNCHANGED <<tubes, usages, boxes, individuals, samples, imp, mysql,
                   indrun, inflight>>

(***************************************************************************)
(* GET /api/tubes?status=...   The listing is modelled as the set of the   *)
(* tubes it returns (by id), without its order by barcode.                 *)
(***************************************************************************)
get_tubes(status) ==
    /\ resp' = Answer("get_tubes", 200, status,
                      [id \in {i \in DOMAIN tubes : StatusFilter(tubes[i], status)}
                          |-> to_dict(id)])
    /\ UNCHANGED <<tubes, usages, boxes, individuals, samples, imp, mysql,
                   indrun, inflight>>

(***************************************************************************)
(* Individuals, samples and boxes.  SQLite does not enforce the foreign    *)
(* keys (no PRAGMA foreign_keys), so a reference column holds whatever the *)
(* handler stores in it.  An individual row is modelled by its             *)
(* individual_id alone.                                                    *)
(***************************************************************************)
NewIndividual(data) == [individual_id |-> Get(data, "individual_id")]

\* individual.samples as it would be if the relationship were never loaded.
IndividualSamples_None(id) == {}

\* individual.samples: the sample rows whose individual_id is this id.
IndividualSamples(id) ==
    {s \in DOMAIN samples : samples[s].individual_id = Num(id)}

\* sample.tubes as it would be if the relationship were never loaded.
SampleTubes_None(id) == {}

\* sample.tubes: the tube rows whose sample_id is this id.
SampleTubes(id) == {t \in DOMAIN tubes : tubes[t].sample_id = Num(id)}

\* box.tubes: the tube rows whose box_id is this id.
BoxTubes(id) == {t \in DOMAIN tubes : tubes[t].box_id = Num(id)}

(***************************************************************************)
(* POST /api/individuals                                                   *)
(***************************************************************************)
create_individual(data) ==
    IF \E i \in DOMAIN individuals :
          individuals[i].individual_id = Get(data, "individual_id")
    THEN /\ resp' = Reply("create_individual", 400, "individual_exists")
         /\ UNCHANGED <<tubes, usages, boxes, individuals, samples, imp, mysql,
                        indrun, inflight>>
    ELSE IF IsNone(Get(data, "individual_id"))
         THEN /\ resp' = Reply("create_individual", 500, "IntegrityError")
              /\ UNCHANGED <<tubes, usages, boxes, individuals, samples, imp,
                             mysql, indrun, inflight>>
         ELSE /\ individuals' = Put(individuals, NextId(DOMAIN individuals),
                                    NewIndividual(data))
              /\ resp' = Reply("create_individual", 201, "")
              /\ UNCHANGED <<tubes, usages, boxes, samples, imp, mysql, indrun,
                             inflight>>

(***************************************************************************)
(* DELETE /api/individuals/<id>                                            *)
(***************************************************************************)
delete_individual(id) ==
    IF id \notin DOMAIN individuals
    THEN /\ resp' = Reply("delete_individual", 404, "not_found")
         /\ UNCHANGED <<tubes, usages, boxes, individuals, samples, imp, mysql,
                        indrun, inflight>>
    ELSE IF IndividualSamples(id) # {}
         THEN /\ resp' = Reply("delete_individual", 400, "has_samples")
              /\ UNCHANGED <<tubes, usages, boxes, individuals, samples, imp,
                             mysql, indrun, inflight>>
         ELSE /\ individuals' = Drop(individuals, id)
              /\ resp' = Reply("delete_individual", 200, "")
              /\ UNCHANGED <<tubes, usages, boxes, samples, imp, mysql, indrun,
                             inflight>>

(***************************************************************************)
(* POST /api/samples                                                       *)
(***************************************************************************)
\* data.get('sample_code') or data.get('sample_id')
SampleCode(data) ==
    IF Truthy(Get(data, "sample_code"))
    THEN Get(data, "sample_code") ELSE Get(data, "sample_id")

create_sample(data) ==
    IF \E s \in DOMAIN samples : samples[s].sample_id = SampleCode(data)
    THEN /\ resp' = Reply("create_sample", 400, "sample_exists")
         /\ UNCHANGED <<tubes, usages, boxes, individuals, samples, imp, mysql,
                        indrun, inflight>>
    ELSE IF /\ Truthy(Get(data, "arrival_date"))
            /\ ~IsDateText(Get(data, "arrival_date").s)
         THEN /\ resp' = Reply("create_sample", 400, "bad_date")
              /\ UNCHANGED <<tubes, usages, boxes, individuals, samples, imp,
                             mysql, indrun, inflight>>
         ELSE IF IsNone(SampleCode(data))
              THEN /\ resp' = Reply("create_sample", 500, "IntegrityError")
                   /\ UNCHANGED <<tubes, usages, boxes, individuals, samples,
                                  imp, mysql, indrun, inflight>>
              ELSE /\ samples' =
                        Put(samples, NextId(DOMAIN samples),
                            [sample_id |-> SampleCode(data),
                             individual_id |-> Get(data, "individual_id"),
                             sample_type |-> Get(data, "sample_type"),
                             arrival_date |->
                                IF Truthy(Get(data, "arrival_date"))
                                THEN Get(data, "arrival_date") ELSE Null,
                             notes |-> Get(data, "notes")])
                   /\ resp' = Reply("create_sample", 201, "")
                   /\ UNCHANGED <<tubes, usages, boxes, individuals, imp,
                                  mysql, indrun, inflight>>

(***************************************************************************)
(* DELETE /api/samples/<id>                                                *)
(***************************************************************************)
delete_sample(id) ==
    IF id \notin DOMAIN samples
    THEN /\ resp' = Reply("delete_sample", 404, "not_found")
         /\ UNCHANGED <<tubes, usages, boxes, individuals, samples, imp, mysql,
                        indrun, inflight>>
    ELSE IF SampleTubes(id) # {}
         THEN /\ resp' = Reply("delete_sample", 400, "has_tubes")
              /\ UNCHANGED <<tubes, usages, boxes, individuals, samples, imp,
                             mysql, indrun, inflight>>
         ELSE /\ samples' = Drop(samples, id)
              /\ resp' = Reply("delete_sample", 200, "")
              /\ UNCHANGED <<tubes, usages, boxes, individuals, imp, mysql,
                             indrun, inflight>>

(***************************************************************************)
(* POST /api/boxes                                                         *)
(***************************************************************************)
create_box(data) ==
    /\ NextId(DOMAIN boxes) <= MaxBoxId
    /\ boxes' = Put(boxes, NextId(DOMAIN boxes),
                    [name |-> Get(data, "name"),
                     box_type |-> GetOr(data, "box_type", Str("stock")),
                     freezer |-> Get(data, "freezer"),
                     notes |-> Get(data, "notes")])
    /\ resp' = Reply("create_box", 201, "")
    /\ UNCHANGED <<tubes, usages, individuals, samples, imp, mysql, indrun, inflight>>

(***************************************************************************)
(* DELETE /api/boxes/<id>                                                  *)
(***************************************************************************)
delete_box(id) ==
    IF id \notin DOMAIN boxes
    THEN /\ resp' = Reply("delete_box", 404, "not_found")
         /\ UNCHANGED <<tubes, usages, boxes, individuals, samples, imp, mysql,
                        indrun, inflight>>
    ELSE IF BoxTubes(id) # {}
         THEN /\ resp' = Reply("delete_box", 400, "has_tubes")
              /\ UNCHANGED <<tubes, usages, boxes, individuals, samples, imp,
                             mysql, indrun, inflight>>
         ELSE /\ boxes' = Drop(boxes, id)
              /\ resp' = Reply("delete_box", 200, "")
              /\ UNCHANGED <<tubes, usages, individuals, samples, imp, mysql,
                             indrun, inflight>>

(***************************************************************************)
(* POST /api/usages                                                        *)
(***************************************************************************)
\* Usage(...) as create_usage builds it.
NewUsage(data, date_out, volume_taken) ==
    [tube_id |-> Get(data, "tube_id"),
     user_name |-> Get(data, "user_name"),
     date_out |-> date_out,
     volume_taken |-> volume_taken,
     purpose |-> Get(data, "purpose"),
     notes |-> Get(data, "notes")]

\* Tube.query.get(data['tube_id']): the id of the row, 0 when there is none.
TubeById(v) == IF v.k = "num" /\ v.n \in DOMAIN tubes THEN v.n ELSE 0

\* volume_taken as the handler holds it after "Validate volume_taken":
\* None when the body has none, else float(...) of it.
VolumeTaken(data) ==
    IF IsNone(Get(data, "volume_taken"))
    THEN Null
    ELSE Num(ToFloat(Get(data, "volume_taken")).n)

\* The check as it would be with "<" for "<=".
NotPositive_AllowsZero(volume_taken) == volume_taken.n < 0

\* "if volume_taken <= 0": the amount is refused as not positive.
NotPositive(volume_taken) == volume_taken.n <= 0

\* The tube the handler holds after "Validate tube exists": 0 for None.
UsageTube(data) ==
    IF Truthy(Get(data, "tube_id")) THEN TubeById(Get(data, "tube_id")) ELSE 0

\* The check as it would be if it compared with initial_volume.
Insufficient_AgainstInitial(tube_id, volume_taken) ==
    /\ tube_id # 0
    /\ Truthy(volume_taken)
    /\ ~IsNone(tubes[tube_id].initial_volume)
    /\ volume_taken.n > tubes[tube_id].initial_volume.n

\* "Check sufficient volume": the request asks for more than the tube holds.
Insufficient(tube_id, volume_taken) ==
    /\ tube_id # 0
    /\ Truthy(volume_taken)
    /\ ~IsNone(tubes[tube_id].current_volume)
    /\ volume_taken.n > tubes[tube_id].current_volume.n

\* The decrement as it would be if a request that repeats a stored usage
\* (same tube, same amount) were recognised and not applied again.
Withdraw_OncePerUsage(tube_id, volume_taken) ==
    IF /\ tube_id # 0
       /\ Truthy(volume_taken)
       /\ ~IsNone(tubes[tube_id].current_volume)
       /\ \A k \in 1..Len(usages) :
              usages[k].tube_id # Num(tube_id) \/ usages[k].volume_taken # volume_taken
    THEN [tubes EXCEPT ![tube_id].current_volume =
                           Num(tubes[tube_id].current_volume.n - volume_taken.n)]
    ELSE tubes

\* The handler as it would be if the decrement were left out.
Withdraw_Forgotten(tube_id, volume_taken) == tubes

\* "Update tube current volume": the tube table after the decrement.
Withdraw(tube_id, volume_taken) ==
    IF /\ tube_id # 0
       /\ Truthy(volume_taken)
       /\ ~IsNone(tubes[tube_id].current_volume)
    THEN [tubes EXCEPT ![tube_id].current_volume =
                           Num(tubes[tube_id].current_volume.n - volume_taken.n)]
    ELSE tubes

\* The date_out the handler stores: today when the body gives none.
DateOut(data) ==
    IF Truthy(Get(data, "date_out")) THEN Get(data, "date_out") ELSE Str("today")

UsageRejected(status, error) ==
    /\ resp' = Reply("create_usage", status, error)
    /\ UNCHANGED <<tubes, usages, boxes, individuals, samples, imp, mysql,
                   indrun, inflight>>

create_usage(data) ==
    IF ~IsNone(Get(data, "volume_taken")) /\ ~ToFloat(Get(data, "volume_taken")).ok
    THEN UsageRejected(400, "not_a_number")
    ELSE IF ~IsNone(Get(data, "volume_taken")) /\ NotPositive(VolumeTaken(data))
    THEN UsageRejected(400, "not_positive")
    ELSE IF Truthy(Get(data, "tube_id")) /\ UsageTube(data) = 0
    THEN UsageRejected(404, "tube_not_found")
    ELSE IF Insufficient(UsageTube(data), VolumeTaken(data))
    THEN UsageRejected(400, "insufficient_volume")
    ELSE IF Truthy(Get(data, "date_out")) /\ ~IsDateText(Get(data, "date_out").s)
    THEN UsageRejected(400, "bad_date")
    ELSE /\ usages' = Append(usages,
                             NewUsage(data, DateOut(data), VolumeTaken(data)))
         /\ tubes' = Withdraw(UsageTube(data), VolumeTaken(data))
         /\ resp' = Reply("create_usage", 201, "")
         /\ UNCHANGED <<boxes, individuals, samples, imp, mysql, indrun, inflight>>

(***************************************************************************)
(* POST /api/usages on the threaded server: each request runs in a thread  *)
(* with a session of its own.  The handler reads the tube and checks the   *)
(* request (lines 1055-1085), then writes the usage and the volume it      *)
(* computed from the tube it read, and commits (lines 1087-1101); requests *)
(* of other threads may run between the two.                               *)
(***************************************************************************)
\* The first half: validate, load the tube, check the volume, parse the date.
UsageCheck(th, data) ==
    /\ inflight[th].pc = "idle"
    /\ IF ~IsNone(Get(data, "volume_taken")) /\ ~ToFloat(Get(data, "volume_taken")).ok
       THEN resp' = Reply("create_usage", 400, "not_a_number") /\ UNCHANGED inflight
       ELSE IF ~IsNone(Get(data, "volume_taken")) /\ NotPositive(VolumeTaken(data))
       THEN resp' = Reply("create_usage", 400, "not_positive") /\ UNCHANGED inflight
       ELSE IF Truthy(Get(data, "tube_id")) /\ UsageTube(data) = 0
       THEN resp' = Reply("create_usage", 404, "tube_not_found") /\ UNCHANGED inflight
       ELSE IF Insufficient(UsageTube(data), VolumeTaken(data))
       THEN resp' = Reply("create_usage", 400, "insufficient_volume")
            /\ UNCHANGED inflight
       ELSE IF Truthy(Get(data, "date_out")) /\ ~IsDateText(Get(data, "date_out").s)
       THEN resp' = Reply("create_usage", 400, "bad_date") /\ UNCHANGED inflight
       ELSE /\ inflight' =
                   [inflight EXCEPT ![th] =
                       [pc |-> "checked", data |-> data, tube |-> UsageTube(data),
                        current_volume |->
                            IF UsageTube(data) = 0 THEN Null
                            ELSE tubes[UsageTube(data)].current_volume]]
            /\ UNCHANGED resp
    /\ UNCHANGED <<tubes, usages, boxes, individuals, samples, imp, mysql, indrun>>

\* The second half: "tube.current_volume -= volume_taken" on the tube object
\* the thread loaded, db.session.add(usage), db.session.commit().
UsageCommit(th) ==
    /\ inflight[th].pc = "checked"
    /\ LET data == inflight[th].data
           tube == inflight[th].tube
           volume_taken == VolumeTaken(data)
       IN  /\ usages' = Append(usages, NewUsage(data, DateOut(data), volume_taken))
           /\ tubes' = IF /\ tube # 0
                          /\ tube \in DOMAIN tubes
                          /\ Truthy(volume_taken)
                          /\ ~IsNone(inflight[th].current_volume)
                       THEN [tubes EXCEPT ![tube].current_volume =
                                Num(inflight[th].current_volume.n - volume_taken.n)]
                       ELSE tubes
    /\ inflight' = [inflight EXCEPT ![th] = [pc |-> "idle"]]
    /\ resp' = Reply("create_usage", 201, "")
    /\ UNCHANGED <<boxes, individuals, samples, imp, mysql, indrun>>

(***************************************************************************)
(* reimport_tubes_boxes.py: the TSV import.  A row of the file is a record *)
(* of the columns the import reads: barcode (0), code_principal (1),       *)
(* volume (3), pos_h (4), pos_v (5) and nom_boite (9); the other columns   *)
(* of the rows modelled here are blank.                                    *)
(***************************************************************************)
Row(barcode, code_principal, volume, pos_h, pos_v, nom_boite) ==
    [barcode |-> barcode, code_principal |-> code_principal, volume |-> volume,
     pos_h |-> pos_h, pos_v |-> pos_v, nom_boite |-> nom_boite]

\* The mark rstrip removes from the end of a "Code principal" (a dagger in
\* the source, written in ASCII here).
Dagger == "+"

parse_volume(value) ==
    IF Strip(value) = "" THEN Null
    ELSE LET t == Replace(LStripChar(Strip(value), "<"), ",", ".")
         IN  IF IsFloatText(t) THEN Num(FloatOfText(t)) ELSE Null

parse_position_v(letter) ==
    IF Strip(letter) = "" THEN Null
    ELSE LET l == Upper(Strip(letter))
         IN  IF Len(l) = 1 /\ IndexIn(Letters, l) \in 1..9
             THEN Num(IndexIn(Letters, l))
             ELSE Null

\* A Python int of more decimal digits (over 19) than any 64-bit integer
\* has: the value int() gives for such a text, kept as its digits.
Big(t) == [k |-> "big", n |-> 0, s |-> t]

\* The digits of an integer text without sign and leading zeros.
Magnitude(t) == LStripChar(Unsigned(Strip(t)), "0")

parse_position_h(value) ==
    IF Strip(value) = "" THEN Null
    ELSE IF IsIntText(Strip(value))
         THEN IF Len(Magnitude(value)) > 19
              THEN Big(Magnitude(value))
              ELSE Num(IntOfText(Strip(value)))
         ELSE Null

\* The state of a run that has read the file `rows` and done nothing yet.
ImportOf(rows) ==
    [pc |-> "start", rows |-> rows, i |-> 1,
     individual_map |-> <<>>, sample_by_individual |-> <<>>,
     sample_by_code |-> <<>>, box_name_to_id |-> <<>>,
     seen_barcodes |-> {}, seen_positions |-> {},
     created |-> 0, skipped_dup_barcode |-> 0, skipped_dup_position |-> 0,
     skipped_no_barcode |-> 0, linked_to_individual |-> 0, not_linked |-> 0,
     samples_created |-> 0, samples_reused |-> 0, committed |-> 0,
     saved_samples |-> <<>>, run |-> 1, earlier |-> "none"]

\* "created % 500 == 0": the number of created tubes between two commits,
\* scaled down.
BatchSize == 2

Min(S) == CHOOSE m \in S : \A x \in S : m <= x

\* individual_map: individual code -> primary key.
IndividualMap ==
    [c \in {individuals[x].individual_id.s : x \in DOMAIN individuals} |->
        CHOOSE x \in DOMAIN individuals : individuals[x].individual_id.s = c]

\* sample_by_individual as it would be if STEP 4 loaded no sample.
SampleByIndividual_Empty == <<>>

\* sample_by_individual: individual primary key -> its first sample.
SampleByIndividual ==
    [k \in {samples[x].individual_id.n :
                x \in {y \in DOMAIN samples : ~IsNone(samples[y].individual_id)}} |->
        Min({x \in DOMAIN samples : samples[x].individual_id = Num(k)})]

\* sample_by_code: sample code -> primary key.
SampleByCode ==
    [c \in {samples[x].sample_id.s :
                x \in {y \in DOMAIN samples : Truthy(samples[y].sample_id)}} |->
        CHOOSE x \in DOMAIN samples : samples[x].sample_id.s = c]

\* The keys of box_info in insertion order: the box names of the file, each
\* at its first occurrence.
RECURSIVE BoxNames(_, _)
BoxNames(rows, names) ==
    IF rows = <<>> THEN names
    ELSE LET nom_boite == Strip(Head(rows).nom_boite)
         IN  BoxNames(Tail(rows),
                      IF nom_boite = "" \/ nom_boite \in Range(names)
                      THEN names
                      ELSE Append(names, nom_boite))

\* Box(...) for a name whose first row has blank frigo, etage, numero and type.
NewBox(name) ==
    [name |-> Str(name), box_type |-> Str("stock"), freezer |-> Null, notes |-> Null]

\* A column of a row that the rows of a file may leave out: frigo (6),
\* etage (7), numero (8) and type_boite (11), blank when left out.
Col(row, name) == IF name \in DOMAIN row THEN Strip(row[name]) ELSE ""

\* A row with its box columns filled in.
BoxRow(row, frigo, etage, numero, type_boite) ==
    row @@ [frigo |-> frigo, etage |-> etage, numero |-> numero,
            type_boite |-> type_boite]

build_freezer_info(frigo, etage) ==
    IF Strip(frigo) # "" /\ Strip(etage) # ""
    THEN Str("Frigo " \o Strip(frigo) \o ", Etage " \o Strip(etage))
    ELSE IF Strip(frigo) # "" THEN Str("Frigo " \o Strip(frigo))
    ELSE IF Strip(etage) # "" THEN Str("Etage " \o Strip(etage))
    ELSE Null

\* box_info[name] as it would be if every row that names the box wrote it.
BoxInfo_LastWins(rows, name) ==
    rows[Max({i \in 1..Len(rows) : Strip(rows[i].nom_boite) = name})]

\* box_info[name]: the row that put the name in box_info, the first of the
\* file that names the box.
BoxInfo(rows, name) ==
    rows[Min({i \in 1..Len(rows) : Strip(rows[i].nom_boite) = name})]

\* Box(...) as STEP 5 builds it from box_info[name].
ImportedBox(name, info) ==
    [name |-> Str(name),
     box_type |-> IF Col(info, "type_boite") # ""
                  THEN Str(Col(info, "type_boite")) ELSE Str("stock"),
     freezer |-> build_freezer_info(Col(info, "frigo"), Col(info, "etage")),
     notes |-> IF Col(info, "numero") # ""
               THEN Str("No boite: " \o Col(info, "numero")) ELSE Null]

\* STEP 2 as it would be if the purge left the tubes in place.
ImportPurge_KeepsTubes ==
    /\ imp.pc = "start"
    /\ Quiet
    /\ usages' = <<>>
    /\ boxes' = <<>>
    /\ imp' = [imp EXCEPT !.pc = "purged", !.saved_samples = samples]
    /\ UNCHANGED <<tubes, individuals, samples, mysql, indrun, inflight, resp>>

\* STEP 2: purge tubes, boxes, usages, and commit.
ImportPurge ==
    /\ imp.pc = "start"
    /\ Quiet
    /\ usages' = <<>>
    /\ tubes' = <<>>
    /\ boxes' = <<>>
    /\ imp' = [imp EXCEPT !.pc = "purged", !.saved_samples = samples]
    /\ UNCHANGED <<individuals, samples, mysql, indrun, inflight, resp>>

\* STEPS 4 and 5: load the lookup dicts, create one box per box name.
ImportBoxes ==
    /\ imp.pc = "purged"
    /\ LET names == BoxNames(imp.rows, <<>>)
           base == NextId(DOMAIN boxes) - 1
       IN  /\ boxes' = [id \in DOMAIN boxes \cup {base + k : k \in 1..Len(names)} |->
                           IF id \in DOMAIN boxes THEN boxes[id]
                           ELSE ImportedBox(names[id - base],
                                            BoxInfo(imp.rows, names[id - base]))]
           /\ imp' = [imp EXCEPT
                         !.pc = "rows",
                         !.individual_map = IndividualMap,
                         !.sample_by_individual = SampleByIndividual,
                         !.sample_by_code = SampleByCode,
                         !.box_name_to_id =
                             [n \in Range(names) |->
                                 base + (CHOOSE k \in 1..Len(names) : names[k] = n)]]
    /\ UNCHANGED <<tubes, usages, individuals, samples, mysql, indrun, inflight, resp>>

\* The loop as it would be if it kept no record of the barcodes it has read.
AlreadySeen_Never(barcode) == FALSE

\* "if barcode in seen_barcodes"
AlreadySeen(barcode) == barcode \in imp.seen_barcodes

\* "if nom_boite and pos_h_str.strip() and pos_v_str.strip()"
HasPosKey(row) ==
    Strip(row.nom_boite) # "" /\ Strip(row.pos_h) # "" /\ Strip(row.pos_v) # ""

\* pos_key
PosKey(row) == <<Strip(row.nom_boite), Strip(row.pos_h), Strip(row.pos_v)>>

\* box_name_to_id.get(nom_boite)
BoxOf(row) ==
    IF Strip(row.nom_boite) \in DOMAIN imp.box_name_to_id
    THEN Num(imp.box_name_to_id[Strip(row.nom_boite)])
    ELSE Null

\* clean_code
CleanCode(row) == Strip(RStripChar(Strip(row.code_principal), Dagger))

\* individual_db_id when the row has a code and the code is known, else 0.
LinkedIndividual(row) ==
    IF Strip(row.code_principal) # "" /\ CleanCode(row) \in DOMAIN imp.individual_map
    THEN imp.individual_map[CleanCode(row)]
    ELSE 0

RECURSIVE SuffixedCode(_, _, _)
SuffixedCode(clean_code, suffix, taken) ==
    IF (clean_code \o "_T" \o IntText(suffix)) \in taken
    THEN SuffixedCode(clean_code, suffix + 1, taken)
    ELSE clean_code \o "_T" \o IntText(suffix)

\* new_sample_id as it would be without the search for a free code.
NewSampleId_NoSearch(clean_code, taken) == clean_code

\* new_sample_id: the code, or the code with the first free _T suffix.
NewSampleId(clean_code, taken) ==
    IF clean_code \in taken THEN SuffixedCode(clean_code, 1, taken) ELSE clean_code

\* Sample(...) as the import builds it (tissus and code_alias blank).
NewSample(code, individual_db_id) ==
    [sample_id |-> Str(code), individual_id |-> Num(individual_db_id),
     sample_type |-> Null, notes |-> Null]

\* Tube(...) as the import builds it.
ImportedTube(row, sample_id) ==
    [barcode |-> Str(Strip(row.barcode)),
     sample_id |-> sample_id,
     box_id |-> BoxOf(row),
     position_row |-> parse_position_v(row.pos_v),
     position_col |-> parse_position_h(row.pos_h),
     concentration |-> Null,
     quality |-> Null,
     initial_volume |-> parse_volume(row.volume),
     current_volume |-> parse_volume(row.volume),
     source |-> Null,
     tube_type |-> Str("stock"),
     notes |-> Null]

\* A tube row sqlite3 cannot bind: an integer column holds a Python int
\* beyond 64 bits (OverflowError at the INSERT).
Unstorable(tube) == tube.position_col.k = "big"

\* The tubes added since the last commit include one that cannot be stored.
PendingUnstorable == \E t \in DOMAIN tubes : t > imp.committed /\ Unstorable(tubes[t])

\* The end of a run that raises, as it would be if the session were
\* committed on the way out.
ImportAbort_KeepsPending ==
    /\ imp' = [imp EXCEPT !.pc = "failed"]
    /\ UNCHANGED <<tubes, samples>>

\* A flush raises: nothing in the loop catches it, the script ends and the
\* database keeps what the last commit wrote.
ImportAbort ==
    /\ imp' = [imp EXCEPT !.pc = "failed"]
    /\ tubes' = [t \in {id \in DOMAIN tubes : id <= imp.committed} |-> tubes[t]]
    /\ samples' = imp.saved_samples

\* The row is not skipped: resolve its sample (db.session.flush() after a
\* new sample), add its tube, count it, commit when the batch is full.
ImportCreate(row, next) ==
    LET ind == LinkedIndividual(row)
        reuse == ind # 0 /\ ind \in DOMAIN imp.sample_by_individual
        make == ind # 0 /\ ~reuse
        pk == NextId(DOMAIN samples)
        code == NewSampleId(CleanCode(row), DOMAIN imp.sample_by_code)
        sample_id == IF reuse THEN Num(imp.sample_by_individual[ind])
                     ELSE IF make THEN Num(pk) ELSE Null
        created == imp.created + 1
        tube == ImportedTube(row, sample_id)
        stored == IF make THEN Put(samples, pk, NewSample(code, ind)) ELSE samples
    IN  IF \/ make /\ PendingUnstorable
           \/ created % BatchSize = 0 /\ (PendingUnstorable \/ Unstorable(tube))
        THEN ImportAbort
        ELSE
        /\ samples' = stored
        /\ tubes' = Put(tubes, NextId(DOMAIN tubes), tube)
        /\ imp' = [next EXCEPT
                      !.seen_barcodes = @ \cup {Strip(row.barcode)},
                      !.seen_positions =
                          IF HasPosKey(row) THEN @ \cup {PosKey(row)} ELSE @,
                      !.linked_to_individual = IF ind # 0 THEN @ + 1 ELSE @,
                      !.not_linked = IF ind = 0 THEN @ + 1 ELSE @,
                      !.samples_reused = IF reuse THEN @ + 1 ELSE @,
                      !.samples_created = IF make THEN @ + 1 ELSE @,
                      !.sample_by_individual = IF make THEN Put(@, ind, pk) ELSE @,
                      !.sample_by_code = IF make THEN Put(@, code, pk) ELSE @,
                      !.created = created,
                      !.committed = IF created % BatchSize = 0 THEN created ELSE @,
                      !.saved_samples =
                          IF created % BatchSize = 0 THEN stored ELSE @]

\* The loop as it would be if a row skipped for its barcode still reserved
\* its position.
ImportRow_DuplicateReserves ==
    /\ imp.pc = "rows"
    /\ imp.i <= Len(imp.rows)
    /\ LET row == imp.rows[imp.i]
           next == [imp EXCEPT !.i = @ + 1]
       IN  IF Strip(row.barcode) = ""
           THEN /\ imp' = [next EXCEPT !.skipped_no_barcode = @ + 1]
                /\ UNCHANGED <<tubes, samples>>
           ELSE IF AlreadySeen(Strip(row.barcode))
           THEN /\ imp' = [next EXCEPT
                              !.seen_positions =
                                  IF HasPosKey(row) THEN @ \cup {PosKey(row)} ELSE @,
                              !.skipped_dup_barcode = @ + 1]
                /\ UNCHANGED <<tubes, samples>>
           ELSE IF HasPosKey(row) /\ PosKey(row) \in imp.seen_positions
           THEN /\ imp' = [next EXCEPT
                              !.seen_barcodes = @ \cup {Strip(row.barcode)},
                              !.skipped_dup_position = @ + 1]
                /\ UNCHANGED <<tubes, samples>>
           ELSE ImportCreate(row, next)
    /\ UNCHANGED <<usages, boxes, individuals, mysql, indrun, inflight, resp>>

\* STEP 6, one turn of the loop over the rows.
ImportRow ==
    /\ imp.pc = "rows"
    /\ imp.i <= Len(imp.rows)
    /\ LET row == imp.rows[imp.i]
           next == [imp EXCEPT !.i = @ + 1]
       IN  IF Strip(row.barcode) = ""
           THEN /\ imp' = [next EXCEPT !.skipped_no_barcode = @ + 1]
                /\ UNCHANGED <<tubes, samples>>
           ELSE IF AlreadySeen(Strip(row.barcode))
           THEN /\ imp' = [next EXCEPT !.skipped_dup_barcode = @ + 1]
                /\ UNCHANGED <<tubes, samples>>
           ELSE IF HasPosKey(row) /\ PosKey(row) \in imp.seen_positions
           THEN /\ imp' = [next EXCEPT
                              !.seen_barcodes = @ \cup {Strip(row.barcode)},
                              !.skipped_dup_position = @ + 1]
                /\ UNCHANGED <<tubes, samples>>
           ELSE ImportCreate(row, next)
    /\ UNCHANGED <<usages, boxes, individuals, mysql, indrun, inflight, resp>>

\* The commit after the loop.
ImportFinish ==
    /\ imp.pc = "rows"
    /\ imp.i > Len(imp.rows)
    /\ IF PendingUnstorable
       THEN ImportAbort
       ELSE /\ imp' = [imp EXCEPT !.pc = "done", !.committed = imp.created,
                                  !.saved_samples = samples]
            /\ UNCHANGED <<tubes, samples>>
    /\ UNCHANGED <<usages, boxes, individuals, mysql, indrun, inflight, resp>>

\* The script is stopped between two commits: the database keeps what the
\* last commit wrote.
ImportKill ==
    /\ imp.pc \in {"purged", "rows"}
    /\ ImportAbort
    /\ UNCHANGED <<usages, boxes, individuals, mysql, indrun, inflight, resp>>

\* The script is run again on the same file.
ImportRerun ==
    /\ imp.pc \in {"done", "failed"}
    /\ imp.run < MaxRuns
    /\ imp' = [ImportOf(imp.rows) EXCEPT !.run = imp.run + 1, !.earlier = imp.pc]
    /\ UNCHANGED <<tubes, usages, boxes, individuals, samples, mysql, indrun,
                   inflight, resp>>

(***************************************************************************)
(* import_individuals.py: the import of the individuals TSV.  A row of the *)
(* file is a record of its columns ID, Aliases, Family ID, Sex, Phenotype, *)
(* Projects, Samples and Other family codes.  The run is one transaction,  *)
(* committed after the last row.                                           *)
(***************************************************************************)
IndividualRow(id, aliases, family_id, sex, samples_str) ==
    [ID |-> id, Aliases |-> aliases, FamilyID |-> family_id, Sex |-> sex,
     Phenotype |-> "", Projects |-> "", Samples |-> samples_str,
     OtherFamilyCodes |-> ""]

\* The state of a run that has opened the file `rows` and read no row yet.
IndividualsRunOf(rows) ==
    [pc |-> "rows", rows |-> rows, i |-> 1,
     individuals_created |-> 0, individuals_updated |-> 0,
     samples_created |-> 0, samples_linked |-> 0,
     saved_individuals |-> individuals, saved_samples |-> samples,
     run |-> 1, earlier |-> "none"]

\* row.get(column, '').strip() or None
TextOrNone(value) == IF Strip(value) = "" THEN Null ELSE Str(Strip(value))

\* sex: int(sex_str), None when the text is blank or no integer.
ParseSex(value) ==
    IF Strip(value) = "" \/ ~IsIntText(Strip(value)) THEN Null
    ELSE IF Len(Magnitude(value)) > 19 THEN Big(Magnitude(value))
    ELSE Num(IntOfText(Strip(value)))

\* "new or existing.field" as it would be if the row always won.
Merged_RowWins(new, old) == new

\* "new or existing.field": the stored value stays when the row has none.
Merged(new, old) == IF Truthy(new) THEN new ELSE old

\* "sex if sex is not None else existing.sex"
MergedSex(new, old) == IF IsNone(new) THEN old ELSE new

\* The existing individual after the row is merged into it.
UpdatedIndividual(existing, row) ==
    [existing EXCEPT
        !.aliases = Merged(TextOrNone(row.Aliases), @),
        !.family_id = Merged(TextOrNone(row.FamilyID), @),
        !.sex = MergedSex(ParseSex(row.Sex), @),
        !.phenotype = Merged(TextOrNone(row.Phenotype), @),
        !.projects = Merged(TextOrNone(row.Projects), @),
        !.other_family_codes = Merged(TextOrNone(row.OtherFamilyCodes), @)]

\* Individual(...) as the import builds it from a row.
ImportedIndividual(row) ==
    [individual_id |-> Str(Strip(row.ID)),
     aliases |-> TextOrNone(row.Aliases),
     family_id |-> TextOrNone(row.FamilyID),
     sex |-> ParseSex(row.Sex),
     phenotype |-> TextOrNone(row.Phenotype),
     projects |-> TextOrNone(row.Projects),
     other_family_codes |-> TextOrNone(row.OtherFamilyCodes)]

\* str.split(',')
RECURSIVE SplitComma(_)
SplitComma(t) ==
    IF \E k \in 1..Len(t) : CharAt(t, k) = ","
    THEN LET k == Min({j \in 1..Len(t) : CharAt(t, j) = ","})
         IN  <<SubSeq(t, 1, k - 1)>> \o SplitComma(SubSeq(t, k + 1, Len(t)))
    ELSE <<t>>

\* sample_codes: the non-blank parts of the Samples column, stripped.
RECURSIVE SampleCodesOf(_)
SampleCodesOf(parts) ==
    IF parts = <<>> THEN <<>>
    ELSE (IF Strip(Head(parts)) = "" THEN <<>> ELSE <<Strip(Head(parts))>>)
         \o SampleCodesOf(Tail(parts))

\* The loop over sample_codes for the individual with primary key pk: a
\* sample that exists is linked to the individual, another one is created.
RECURSIVE ProcessSamples(_, _, _)
ProcessSamples(sample_codes, pk, out) ==
    IF sample_codes = <<>> THEN out
    ELSE LET sample_code == Head(sample_codes)
             found == {x \in DOMAIN out.samples :
                          out.samples[x].sample_id = Str(sample_code)}
         IN  ProcessSamples(Tail(sample_codes), pk,
                 IF found # {}
                 THEN IF out.samples[Min(found)].individual_id # Num(pk)
                      THEN [out EXCEPT
                               !.samples[Min(found)].individual_id = Num(pk),
                               !.linked = @ + 1]
                      ELSE out
                 ELSE [out EXCEPT
                          !.samples = Put(@, NextId(DOMAIN @),
                                          NewSample(sample_code, pk)),
                          !.created = @ + 1])

\* One turn of the loop over the rows.  A flush that raises (a sex beyond
\* 64 bits) leaves the session unusable: every later row raises too and so
\* does the commit, and the database keeps what it held before the run.
IndividualsRow ==
    /\ indrun.pc = "rows"
    /\ indrun.i <= Len(indrun.rows)
    /\ LET row == indrun.rows[indrun.i]
           next == [indrun EXCEPT !.i = @ + 1]
           found == {x \in DOMAIN individuals :
                        individuals[x].individual_id = Str(Strip(row.ID))}
           pk == IF found # {} THEN Min(found) ELSE NextId(DOMAIN individuals)
           individual == IF found # {}
                         THEN UpdatedIndividual(individuals[pk], row)
                         ELSE ImportedIndividual(row)
           out == ProcessSamples(SampleCodesOf(SplitComma(Strip(row.Samples))), pk,
                                 [samples |-> samples, created |-> 0, linked |-> 0])
       IN  IF Strip(row.ID) = ""
           THEN indrun' = next /\ UNCHANGED <<individuals, samples>>
           ELSE IF individual.sex.k = "big"
           THEN /\ indrun' = [indrun EXCEPT !.pc = "failed"]
                /\ individuals' = indrun.saved_individuals
                /\ samples' = indrun.saved_samples
           ELSE /\ individuals' = Put(individuals, pk, individual)
                /\ samples' = out.samples
                /\ indrun' = [next EXCEPT
                                 !.individuals_updated = IF found # {} THEN @ + 1 ELSE @,
                                 !.individuals_created = IF found = {} THEN @ + 1 ELSE @,
                                 !.samples_created = @ + out.created,
                                 !.samples_linked = @ + out.linked]
    /\ UNCHANGED <<tubes, usages, boxes, imp, mysql, inflight, resp>>

\* "Commit all changes" after the last row.
IndividualsCommit ==
    /\ indrun.pc = "rows"
    /\ indrun.i > Len(indrun.rows)
    /\ indrun' = [indrun EXCEPT !.pc = "done"]
    /\ UNCHANGED <<tubes, usages, boxes, individuals, samples, imp, mysql,
                   inflight, resp>>

\* The script is run again on the same file.
IndividualsRerun ==
    /\ indrun.pc \in {"done", "failed"}
    /\ indrun.run < MaxRuns
    /\ indrun' = [IndividualsRunOf(indrun.rows) EXCEPT
                     !.run = indrun.run + 1, !.earlier = indrun.pc]
    /\ UNCHANGED <<tubes, usages, boxes, individuals, samples, imp, mysql,
                   inflight, resp>>

(***************************************************************************)
(* import_tubes_from_mysql_v2.py: the import of a MySQL dump.  A record of *)
(* the dump is the list of texts parse_mysql_tuples gives for one tuple.   *)
(***************************************************************************)
\* "if not in_string: if char == ','" as it would be if the parser kept no
\* track of quoted strings.
EndsField_InsideStrings(char, in_string) == char = ","

\* "if not in_string: if char == ','": the character ends a field.
EndsField(char, in_string) == ~in_string /\ char = ","

\* "if not in_string: if char == ')'": the character ends the tuple.
EndsTuple(char, in_string) == ~in_string /\ char = ")"

\* The inner loop of parse_mysql_tuples, from the character after "(": the
\* index it stops at, the values of the tuple, and whether the tuple was
\* closed and so appended to records.
RECURSIVE ParseTuple(_, _, _, _, _, _)
ParseTuple(values_string, i, values, current_value, in_string, escape) ==
    IF i > Len(values_string)
    THEN [i |-> i, values |-> values, closed |-> FALSE]
    ELSE LET char == CharAt(values_string, i)
         IN  IF escape
             THEN ParseTuple(values_string, i + 1, values,
                             current_value \o char, in_string, FALSE)
             ELSE IF char = "\\" /\ in_string
             THEN ParseTuple(values_string, i + 1, values,
                             current_value \o char, in_string, TRUE)
             ELSE IF char = "'"
             THEN ParseTuple(values_string, i + 1, values,
                             current_value \o char, ~in_string, FALSE)
             ELSE IF EndsField(char, in_string)
             THEN ParseTuple(values_string, i + 1,
                             Append(values, Strip(current_value)), "",
                             in_string, FALSE)
             ELSE IF EndsTuple(char, in_string)
             THEN [i |-> i + 1, values |-> Append(values, Strip(current_value)),
                   closed |-> TRUE]
             ELSE ParseTuple(values_string, i + 1, values,
                             current_value \o char, in_string, FALSE)

\* The outer loop of parse_mysql_tuples from index i on.
RECURSIVE ParseTuples(_, _, _)
ParseTuples(values_string, i, records) ==
    IF i > Len(values_string) THEN records
    ELSE IF CharAt(values_string, i) # "("
    THEN ParseTuples(values_string, i + 1, records)
    ELSE LET tuple == ParseTuple(values_string, i + 1, <<>>, "", FALSE, FALSE)
         IN  ParseTuples(values_string, tuple.i,
                         IF tuple.closed THEN Append(records, tuple.values)
                         ELSE records)

parse_mysql_tuples(values_string) == ParseTuples(values_string, 1, <<>>)

\* The script has matched the VALUES list of an INSERT statement of the
\* dump and is about to parse it; `fields` is what the list was written from.
DumpOf(fields, values_string) ==
    [pc |-> "dump", fields |-> fields, values_string |-> values_string]

\* extract_inserts_from_dump: records = parse_mysql_tuples(match).
MysqlExtract ==
    /\ mysql.pc = "dump"
    /\ mysql' = [pc |-> "parsed", fields |-> mysql.fields,
                 values_string |-> mysql.values_string,
                 records |-> parse_mysql_tuples(mysql.values_string)]
    /\ UNCHANGED <<tubes, usages, boxes, individuals, samples, imp, indrun,
                   inflight, resp>>

\* str.replace(a, b) for a two-character a.
RECURSIVE Replace2(_, _, _)
Replace2(t, a, b) ==
    IF Len(t) < 2 THEN t
    ELSE IF SubSeq(t, 1, 2) = a
         THEN b \o Replace2(SubSeq(t, 3, Len(t)), a, b)
         ELSE CharAt(t, 1) \o Replace2(SubSeq(t, 2, Len(t)), a, b)

\* The text between the quotes, unescaped.
Unquoted(t) ==
    Replace2(Replace2(Replace2(SubSeq(t, 2, Len(t) - 1), "\\'", "'"),
                      "\\\"", "\""),
             "\\\\", "\\")

\* parse_value: NULL, a quoted text, a number, else the text as it stands.
\* (The numbers of the model are whole: no record has a "." in a number.)
parse_value(value_str) ==
    LET t == Strip(value_str)
    IN  IF t = "NULL" THEN Null
        ELSE IF Len(t) > 0 /\ CharAt(t, 1) = "'" /\ CharAt(t, Len(t)) = "'"
        THEN Str(Unquoted(t))
        ELSE IF DotAt(t) # 0
        THEN (IF IsFloatText(t) THEN Num(FloatOfText(t)) ELSE Str(t))
        ELSE IF IsIntText(t) THEN Num(IntOfText(t)) ELSE Str(t)

\* str(v) of a parsed value.
PyStr(v) == CASE v.k = "null" -> "None"
              [] v.k = "num" -> IntText(v.n)
              [] v.k = "str" -> v.s

\* The state of a run over the records of the dump's three tables.
MysqlOf(boite, arrivee, tube) ==
    [pc |-> "start", boite |-> boite, arrivee |-> arrivee, tube |-> tube, i |-> 1,
     box_id_map |-> <<>>, arrivee_to_sample |-> <<>>,
     imported |-> 0, skipped |-> 0, no_sample |-> 0, committed |-> <<>>,
     run |-> 1, earlier |-> "none"]

\* The loop of import_boxes: boxes and box_id_map after the records.
RECURSIVE ImportedBoxes(_, _, _)
ImportedBoxes(records, bx, map) ==
    IF records = <<>> THEN [boxes |-> bx, box_id_map |-> map]
    ELSE IF Len(Head(records)) # 4 THEN ImportedBoxes(Tail(records), bx, map)
    ELSE LET mysql_id == parse_value(Head(records)[1])
             name == parse_value(Head(records)[2])
             notes == parse_value(Head(records)[4])
             existing == {b \in DOMAIN bx : ~IsNone(name) /\ bx[b].name = name}
         IN  IF existing # {}
             THEN ImportedBoxes(Tail(records), bx, Put(map, mysql_id, Min(existing)))
             ELSE ImportedBoxes(
                      Tail(records),
                      Put(bx, NextId(DOMAIN bx),
                          [name |-> name, box_type |-> Null, freezer |-> Null,
                           notes |-> IF Truthy(notes) THEN notes ELSE Str("")]),
                      Put(map, mysql_id, NextId(DOMAIN bx)))

\* import_boxes
MysqlBoxes ==
    /\ mysql.pc = "start"
    /\ Quiet
    /\ LET out == ImportedBoxes(mysql.boite, boxes, <<>>)
       IN  /\ boxes' = out.boxes
           /\ mysql' = [mysql EXCEPT !.pc = "arrivals",
                                     !.box_id_map = out.box_id_map,
                                     !.committed = tubes]
    /\ UNCHANGED <<tubes, usages, individuals, samples, imp, indrun, inflight, resp>>

\* sample_id = code_c0733 or code_aom or code_adn or f"ARR{id_arrivee}"
ArrivalCode(values) ==
    IF Truthy(values[4]) THEN values[4]
    ELSE IF Truthy(values[3]) THEN values[3]
    ELSE IF Truthy(values[5]) THEN values[5]
    ELSE Str("ARR" \o PyStr(values[1]))

\* The loop of import_arrivals: samples and arrivee_to_sample after the
\* records.
RECURSIVE ImportedArrivals(_, _, _)
ImportedArrivals(records, sm, map) ==
    IF records = <<>> THEN [samples |-> sm, arrivee_to_sample |-> map]
    ELSE IF Len(Head(records)) # 7 THEN ImportedArrivals(Tail(records), sm, map)
    ELSE LET values == [k \in 1..7 |-> parse_value(Head(records)[k])]
             sample_id == ArrivalCode(values)
             existing == {x \in DOMAIN sm : sm[x].sample_id = sample_id}
             individual_pk ==
                 IF PyStr(values[2]) \in DOMAIN IndividualMap
                 THEN Num(IndividualMap[PyStr(values[2])])
                 ELSE Null
         IN  IF existing # {}
             THEN ImportedArrivals(Tail(records), sm, Put(map, values[1], Min(existing)))
             ELSE ImportedArrivals(
                      Tail(records),
                      Put(sm, NextId(DOMAIN sm),
                          [sample_id |-> sample_id, individual_id |-> individual_pk,
                           sample_type |-> Null,
                           notes |-> Str("Imported from MySQL arrivee")]),
                      Put(map, values[1], NextId(DOMAIN sm)))

\* import_arrivals, called first by import_tubes.
MysqlArrivals ==
    /\ mysql.pc = "arrivals"
    /\ LET out == ImportedArrivals(mysql.arrivee, samples, <<>>)
       IN  /\ samples' = out.samples
           /\ mysql' = [mysql EXCEPT !.pc = "tubes",
                                     !.arrivee_to_sample = out.arrivee_to_sample]
    /\ UNCHANGED <<tubes, usages, boxes, individuals, imp, indrun, inflight, resp>>

\* f"T{mysql_code_barre:06d}"
MysqlBarcode(mysql_code_barre) == "T" \o ZeroPad(IntText(mysql_code_barre.n), 6)

\* The row the INSERT of import_tubes stores.
MysqlTubeRow(values, barcode, sample_pk) ==
    [barcode |-> Str(barcode),
     sample_id |-> Num(sample_pk),
     box_id |-> IF Truthy(values[3]) /\ values[3] \in DOMAIN mysql.box_id_map
                THEN Num(mysql.box_id_map[values[3]])
                ELSE Null,
     position_row |-> values[4],
     position_col |-> values[5],
     concentration |-> values[6],
     quality |-> values[7],
     initial_volume |-> values[8],
     current_volume |-> values[9],
     source |-> values[10],
     tube_type |-> Null,
     notes |-> IF Truthy(values[12]) THEN values[12] ELSE Str("")]

\* One turn of the loop of import_tubes.  A code that is no integer makes
\* the format raise: the script ends and its transaction is rolled back.
MysqlTube ==
    /\ mysql.pc = "tubes"
    /\ mysql.i <= Len(mysql.tube)
    /\ LET raw == mysql.tube[mysql.i]
           values == [k \in 1..12 |-> parse_value(raw[k])]
           next == [mysql EXCEPT !.i = @ + 1]
           sample_pk == IF values[2] \in DOMAIN mysql.arrivee_to_sample
                        THEN mysql.arrivee_to_sample[values[2]]
                        ELSE 0
           barcode == MysqlBarcode(values[1])
           ts == Put(tubes, NextId(DOMAIN tubes),
                     MysqlTubeRow(values, barcode, sample_pk))
       IN  IF Len(raw) # 12
           THEN mysql' = next /\ UNCHANGED tubes
           ELSE IF sample_pk = 0
           THEN mysql' = [next EXCEPT !.no_sample = @ + 1] /\ UNCHANGED tubes
           ELSE IF values[1].k # "num"
           THEN mysql' = [mysql EXCEPT !.pc = "failed"] /\ tubes' = mysql.committed
           ELSE IF \E x \in DOMAIN tubes : tubes[x].barcode = Str(barcode)
           THEN mysql' = [next EXCEPT !.skipped = @ + 1] /\ UNCHANGED tubes
           ELSE IF TubeTableOK(ts)
           THEN mysql' = [next EXCEPT !.imported = @ + 1] /\ tubes' = ts
           ELSE mysql' = [next EXCEPT !.skipped = @ + 1] /\ UNCHANGED tubes
    /\ UNCHANGED <<usages, boxes, individuals, samples, imp, indrun, inflight, resp>>

\* conn.commit() after the loop.
MysqlCommit ==
    /\ mysql.pc = "tubes"
    /\ mysql.i > Len(mysql.tube)
    /\ mysql' = [mysql EXCEPT !.pc = "done", !.committed = tubes]
    /\ UNCHANGED <<tubes, usages, boxes, individuals, samples, imp, indrun,
                   inflight, resp>>

\* The script is stopped in import_tubes before its commit: the tubes it
\* inserted are rolled back, the boxes and samples stay committed.
MysqlKill ==
    /\ mysql.pc = "tubes"
    /\ mysql' = [mysql EXCEPT !.pc = "failed"]
    /\ tubes' = mysql.committed
    /\ UNCHANGED <<usages, boxes, individuals, samples, imp, indrun, inflight, resp>>

\* The script is run again on the same dump.
MysqlRerun ==
    /\ mysql.pc \in {"done", "failed"}
    /\ mysql.run < MaxRuns
    /\ mysql' = [MysqlOf(mysql.boite, mysql.arrivee, mysql.tube)
                    EXCEPT !.run = mysql.run + 1, !.earlier = mysql.pc]
    /\ UNCHANGED <<tubes, usages, boxes, individuals, samples, imp, indrun,
                   inflight, resp>>

(***************************************************************************)
(* The API server as a state machine: one request at a time, each handler  *)
(* one transaction.  The request bodies exercise the volume ledger.        *)
(***************************************************************************)
Barcodes == {"X1", "X2"}

TubeIds == 1..MaxTubeId

LedgerTubeBodies ==
    {[barcode |-> Str(b), initial_volume |-> v[1], current_volume |-> v[2]] :
        b \in Barcodes,
        v \in {<<Num(10), Num(10)>>, <<Num(10), Null>>, <<Num(10), Num(-5)>>}}

LedgerUpdateBodies ==
    {[current_volume |-> Num(5)],
     [barcode |-> Str("X2"), initial_volume |-> Num(10)]}

UsageBodies ==
    {[tube_id |-> t, volume_taken |-> v,
      date_out |-> Str("2024-01-15"), user_name |-> Str("ana")] :
        t \in {Null, Num(1)},
        v \in {Null, Str("abc"), Num(0), Num(5), Num(15)}}
    \cup {[tube_id |-> Num(0), volume_taken |-> Num(5),
           date_out |-> Str("2024-01-15"), user_name |-> Str("ana")],
          [tube_id |-> Num(1), volume_taken |-> Num(5),
           date_out |-> Str("15/01/2024"), user_name |-> Str("ana")]}

Init ==
    /\ tubes = <<>>
    /\ usages = <<>>
    /\ boxes = <<>>
    /\ individuals = <<>>
    /\ samples = <<>>
    /\ imp = NoImport
    /\ mysql = NoMysql
    /\ indrun = NoIndividualsRun
    /\ inflight = NoRequests
    /\ resp = Reply("none", 0, "")

CreateTube == \E data \in LedgerTubeBodies : create_tube(data)

UpdateTube == \E id \in TubeIds, data \in LedgerUpdateBodies : update_tube(id, data)

DeleteTube == \E id \in TubeIds : delete_tube(id)

\* A request to POST /api/usages while the usage table has room.
CreateUsage ==
    \E data \in UsageBodies : create_usage(data) /\ Len(usages') <= MaxUsages

Next == CreateTube \/ UpdateTube \/ DeleteTube \/ CreateUsage

Spec == Init /\ [][Next]_vars

(***************************************************************************)
(* One run of the TSV import over a file of at most MaxRows rows, on a     *)
(* database that holds a tube, a usage, a box and an individual.           *)
(***************************************************************************)
ImportRows ==
    {Row(b, "", "10", h, v, "B1") :
        b \in {"X1", "X2"}, h \in {"1", "01"}, v \in {"A", "a"}}
    \cup {Row("", "", "10", "1", "A", "B1"), Row("X1", "I1+", "<100", "", "", "")}

ImportFiles == UNION {[1..n -> ImportRows] : n \in 0..MaxRows}

OldTube ==
    [NewTube([barcode |-> Str("X1"), box_id |-> Num(1),
              position_row |-> Num(1), position_col |-> Num(1),
              initial_volume |-> Num(10), current_volume |-> Num(5)])
        EXCEPT !.tube_type = Str("stock")]

OldUsage ==
    NewUsage([tube_id |-> Num(1), user_name |-> Str("ana")],
             Str("2024-01-15"), Num(5))

InitImport ==
    /\ tubes = Put(<<>>, 1, OldTube)
    /\ usages = <<OldUsage>>
    /\ boxes = Put(<<>>, 1, NewBox("OLD"))
    /\ individuals = Put(<<>>, 1, [individual_id |-> Str("I1")])
    /\ samples = <<>>
    /\ imp \in {ImportOf(rows) : rows \in ImportFiles}
    /\ mysql = NoMysql
    /\ indrun = NoIndividualsRun
    /\ inflight = NoRequests
    /\ resp = Reply("none", 0, "")

NextImport == ImportPurge \/ ImportBoxes \/ ImportRow \/ ImportFinish

SpecImport == InitImport /\ [][NextImport]_vars

(***************************************************************************)
(* One run of the TSV import over rows at the edge of the 9 x 9 grid:      *)
(* row letters I and J, column numbers 9 and 10.                           *)
(***************************************************************************)
GridRows ==
    {Row(b, "", "10", h, v, "B1") :
        b \in {"X1", "X2"}, h \in {"9", "10"}, v \in {"I", "J"}}

GridFiles == UNION {[1..n -> GridRows] : n \in 0..MaxRows}

InitGrid ==
    /\ tubes = Put(<<>>, 1, OldTube)
    /\ usages = <<OldUsage>>
    /\ boxes = Put(<<>>, 1, NewBox("OLD"))
    /\ individuals = Put(<<>>, 1, [individual_id |-> Str("I1")])
    /\ samples = <<>>
    /\ imp \in {ImportOf(rows) : rows \in GridFiles}
    /\ mysql = NoMysql
    /\ indrun = NoIndividualsRun
    /\ inflight = NoRequests
    /\ resp = Reply("none", 0, "")

SpecGrid == InitGrid /\ [][NextImport]_vars

(***************************************************************************)
(* One run of the TSV import over a file in which some rows cannot be      *)
(* stored: their column number has twenty digits.                          *)
(***************************************************************************)
FailingRows ==
    {Row(b, c, "10", h, "A", "B1") :
        b \in {"X1", "X2"}, c \in {"", "I1"}, h \in {"1", "99999999999999999999"}}
    \cup {Row("X2", "", "10", "2", "A", "B1"),
          Row("X3", "", "10", "99999999999999999999", "B", "B1")}

FailingFiles == UNION {[1..n -> FailingRows] : n \in 0..MaxRows}

InitFailing ==
    /\ tubes = Put(<<>>, 1, OldTube)
    /\ usages = <<OldUsage>>
    /\ boxes = Put(<<>>, 1, NewBox("OLD"))
    /\ individuals = Put(<<>>, 1, [individual_id |-> Str("I1")])
    /\ samples = <<>>
    /\ imp \in {ImportOf(rows) : rows \in FailingFiles}
    /\ mysql = NoMysql
    /\ indrun = NoIndividualsRun
    /\ inflight = NoRequests
    /\ resp = Reply("none", 0, "")

SpecFailing == InitFailing /\ [][NextImport]_vars

(***************************************************************************)
(* One run of the TSV import over rows that name boxes: the same box is    *)
(* named by several rows whose frigo, etage, numero and type differ.       *)
(***************************************************************************)
NamedRows ==
    {BoxRow(Row(b, "", "10", "", "", n), m[1], m[2], m[3], m[4]) :
        b \in {"X1", "X2"}, n \in {"B1", "B2"},
        m \in {<<"", "", "", "">>, <<"F1", "E2", "7", "working">>}}
    \cup {Row("X1", "", "10", "", "", ""),
          BoxRow(Row("X2", "", "10", "", "", " B1 "), "", "E5", "", "")}

NamedFiles == UNION {[1..n -> NamedRows] : n \in 0..MaxRows}

InitBoxes ==
    /\ tubes = Put(<<>>, 1, OldTube)
    /\ usages = <<OldUsage>>
    /\ boxes = Put(<<>>, 1, NewBox("OLD"))
    /\ individuals = Put(<<>>, 1, [individual_id |-> Str("I1")])
    /\ samples = <<>>
    /\ imp \in {ImportOf(rows) : rows \in NamedFiles}
    /\ mysql = NoMysql
    /\ indrun = NoIndividualsRun
    /\ inflight = NoRequests
    /\ resp = Reply("none", 0, "")

SpecBoxes == InitBoxes /\ [][NextImport]_vars

(***************************************************************************)
(* One run of the TSV import on a database that holds two individuals and  *)
(* samples whose codes collide with the codes of the rows.                 *)
(***************************************************************************)
CodedRows ==
    {Row(b, c, "10", "", "", "") : b \in {"X1", "X2"}, c \in {"I1", "I2", ""}}
    \cup {Row("X3", "I1+", "10", "", "", ""), Row("X3", "I9", "10", "", "", "")}

CodedFiles == UNION {[1..n -> CodedRows] : n \in 0..MaxRows}

\* The sample tables the run may find: none; samples of no individual that
\* hold the codes I1 and I1_T1; a sample of individual 2 that holds the
\* code I1; two samples of individual 1.
OldSamples ==
    {<<>>,
     <<[NewSample("I1", 0) EXCEPT !.individual_id = Null]>>,
     <<[NewSample("I1", 0) EXCEPT !.individual_id = Null],
       [NewSample("I1_T1", 0) EXCEPT !.individual_id = Null]>>,
     <<NewSample("I1", 2)>>,
     <<NewSample("S7", 1), NewSample("S8", 1)>>}

InitSamples ==
    /\ tubes = Put(<<>>, 1, OldTube)
    /\ usages = <<OldUsage>>
    /\ boxes = Put(<<>>, 1, NewBox("OLD"))
    /\ individuals = <<[individual_id |-> Str("I1")], [individual_id |-> Str("I2")]>>
    /\ samples \in OldSamples
    /\ imp \in {ImportOf(rows) : rows \in CodedFiles}
    /\ mysql = NoMysql
    /\ indrun = NoIndividualsRun
    /\ inflight = NoRequests
    /\ resp = Reply("none", 0, "")

SpecSamples == InitSamples /\ [][NextImport]_vars

(***************************************************************************)
(* Runs of one import script over one file, the TSV import or the MySQL    *)
(* import: a run goes to its end or is stopped between two commits, and    *)
(* the script is then run again.                                           *)
(***************************************************************************)
RerunRows ==
    {Row("X1", "I1", "10", "1", "A", "B1"), Row("X1", "", "10", "2", "A", "B1"),
     Row("X2", "", "10", "1", "A", "B1"), Row("X2", "", "10", "2", "A", "B1"),
     Row("X3", "", "10", "3", "A", "B2")}

RerunFiles == UNION {[1..n -> RerunRows] : n \in 0..MaxRows}

\* A tube record of the dump in box 1, column 1: code_barre_tube, id_arrivee
\* and position_h_tube vary.
DumpTube(code_barre, id_arrivee, pos_h) ==
    <<code_barre, id_arrivee, "1", pos_h, "1", "NULL", "NULL", "10", "10",
      "'Blood'", "NULL", "NULL">>

DumpTubes ==
    {DumpTube("1", "1", "1"), DumpTube("1", "1", "2"), DumpTube("2", "1", "1"),
     DumpTube("2", "9", "1")}

RerunDumps ==
    {MysqlOf(<<<<"1", "'B1'", "NULL", "NULL">>>>,
             <<<<"1", "1", "NULL", "'S1'", "NULL", "NULL", "NULL">>>>,
             tube) : tube \in UNION {[1..n -> DumpTubes] : n \in 0..MaxRows}}

\* Either script is about to run: the TSV import on a database that holds
\* an old tube, or the MySQL import on a database without tubes.
InitRerun ==
    /\ individuals = Put(<<>>, 1, [individual_id |-> Str("I1")])
    /\ samples = <<>>
    /\ indrun = NoIndividualsRun
    /\ inflight = NoRequests
    /\ resp = Reply("none", 0, "")
    /\ \/ /\ tubes = Put(<<>>, 1, OldTube)
          /\ usages = <<OldUsage>>
          /\ boxes = Put(<<>>, 1, NewBox("OLD"))
          /\ imp \in {ImportOf(rows) : rows \in RerunFiles}
          /\ mysql = NoMysql
       \/ /\ tubes = <<>>
          /\ usages = <<>>
          /\ boxes = <<>>
          /\ imp = NoImport
          /\ mysql \in RerunDumps

NextRerun ==
    \/ ImportPurge
    \/ ImportBoxes
    \/ ImportRow
    \/ ImportFinish
    \/ ImportKill
    \/ ImportRerun
    \/ MysqlBoxes
    \/ MysqlArrivals
    \/ MysqlTube
    \/ MysqlCommit
    \/ MysqlKill
    \/ MysqlRerun

SpecRerun == InitRerun /\ [][NextRerun]_vars

(***************************************************************************)
(* parse_mysql_tuples over the VALUES lists of well-formed tuples: a list  *)
(* is written from at most MaxRows fields, each a value as mysqldump       *)
(* writes it and a mark that says whether the field opens a new tuple.     *)
(***************************************************************************)
DumpValues ==
    {"1", " 2", "NULL", "'a,b'", "'(c)'", "'d),('", "'e\\'f'", "'g\\\\'"}

DumpFields ==
    UNION {{f \in [1..n -> DumpValues \X BOOLEAN] : f[1][2]} : n \in 1..MaxRows}
    \cup {<<>>}

\* The text of the fields from the k-th on.
RECURSIVE WrittenFrom(_, _)
WrittenFrom(fields, k) ==
    IF k > Len(fields) THEN ")"
    ELSE (IF fields[k][2] THEN "),\n(" ELSE ",") \o fields[k][1]
         \o WrittenFrom(fields, k + 1)

\* The VALUES list as the dump holds it: (v,v),(v),...
Written(fields) ==
    IF fields = <<>> THEN ""
    ELSE "(" \o fields[1][1] \o WrittenFrom(fields, 2)

InitDump ==
    /\ tubes = <<>>
    /\ usages = <<>>
    /\ boxes = <<>>
    /\ individuals = <<>>
    /\ samples = <<>>
    /\ imp = NoImport
    /\ mysql \in {DumpOf(fields, Written(fields)) : fields \in DumpFields}
    /\ indrun = NoIndividualsRun
    /\ inflight = NoRequests
    /\ resp = Reply("none", 0, "")

SpecDump == InitDump /\ [][MysqlExtract]_vars

(***************************************************************************)
(* Runs of the individuals import over a file of at most MaxRows rows, on  *)
(* a database that holds the individual I1 and, or not, the sample S1 of   *)
(* no individual.                                                          *)
(***************************************************************************)
IndividualRows ==
    {IndividualRow("I1", "", "", "", ""),
     IndividualRow(" I1 ", "B", "F2", "2", "S1"),
     IndividualRow("I2", "", "", "x", "S1, S2,"),
     IndividualRow("I2", "C", "", "0", ""),
     IndividualRow("", "D", "", "1", "S3"),
     IndividualRow("I3", "", "", "99999999999999999999", "S3")}

IndividualFiles == UNION {[1..n -> IndividualRows] : n \in 0..MaxRows}

OldIndividual ==
    [individual_id |-> Str("I1"), aliases |-> Str("A"), family_id |-> Str("F1"),
     sex |-> Num(1), phenotype |-> Null, projects |-> Str("P"),
     other_family_codes |-> Null]

InitIndividuals ==
    /\ tubes = <<>>
    /\ usages = <<>>
    /\ boxes = <<>>
    /\ individuals = <<OldIndividual>>
    /\ samples \in {<<>>, <<[NewSample("S1", 0) EXCEPT !.individual_id = Null]>>}
    /\ imp = NoImport
    /\ mysql = NoMysql
    /\ \E rows \in IndividualFiles : indrun = IndividualsRunOf(rows)
    /\ inflight = NoRequests
    /\ resp = Reply("none", 0, "")

NextIndividuals == IndividualsRow \/ IndividualsCommit \/ IndividualsRerun

SpecIndividuals == InitIndividuals /\ [][NextIndividuals]_vars

(***************************************************************************)
(* The volume ledger under create_usage alone: a tube that holds a known   *)
(* volume and a tube whose volume is unknown, and at most MaxWithdrawals   *)
(* usages recorded.                                                        *)
(***************************************************************************)
FullTube ==
    NewTube([barcode |-> Str("X1"), initial_volume |-> Num(10),
             current_volume |-> Num(10)])

UnmeasuredTube == NewTube([barcode |-> Str("X2")])

WithdrawalBodies ==
    {[tube_id |-> t, volume_taken |-> v, user_name |-> Str("ana")] :
        t \in {Null, Num(1), Num(2)},
        v \in {Null, Num(3), Num(4), Str("3"), Num(20)}}

\* The tube table the ledger starts from.
InitLedgerTubes == <<FullTube, UnmeasuredTube>>

InitLedger ==
    /\ tubes = InitLedgerTubes
    /\ usages = <<>>
    /\ boxes = <<>>
    /\ individuals = <<>>
    /\ samples = <<>>
    /\ imp = NoImport
    /\ mysql = NoMysql
    /\ indrun = NoIndividualsRun
    /\ inflight = NoRequests
    /\ resp = Reply("none", 0, "")

RecordWithdrawal ==
    \E data \in WithdrawalBodies :
        create_usage(data) /\ Len(usages') <= MaxWithdrawals

SpecLedger == InitLedger /\ [][RecordWithdrawal]_vars

(***************************************************************************)
(* The volume ledger under create_usage requests handled by MaxThreads     *)
(* threads at once, on the tubes of the ledger above.                      *)
(***************************************************************************)
ThreadBodies ==
    {[tube_id |-> Num(1), volume_taken |-> v, user_name |-> Str("ana")] :
        v \in {Num(4), Num(8), Num(20)}}
    \cup {[tube_id |-> Num(2), volume_taken |-> Num(4), user_name |-> Str("ana")]}

CheckUsage ==
    \E th \in Threads, data \in ThreadBodies :
        UsageCheck(th, data) /\ Len(usages) < MaxWithdrawals

CommitUsage == \E th \in Threads : UsageCommit(th)

SpecThreads == InitLedger /\ [][CheckUsage \/ CommitUsage]_vars

(***************************************************************************)
(* The tube store under all its writers: create_tube and update_tube       *)
(* requests that place tubes in a box, one run of the TSV import and one   *)
(* run of the MySQL import, one writer at a time.                          *)
(***************************************************************************)
StoreBarcodes == {"X1", "T000001"}

StoreTubeBodies ==
    {[barcode |-> Str(b), box_id |-> Num(1),
      position_row |-> r, position_col |-> Num(1)] :
        b \in StoreBarcodes, r \in {Num(1), Num(2)}}

StoreUpdateBodies ==
    {[barcode |-> Str("T000001")], [position_row |-> Num(1)]}

StoreFiles ==
    {<<Row("X1", "", "10", "1", "A", "B1"), Row("X1", "", "10", "2", "B", "B1")>>,
     <<Row("T000001", "", "10", "1", "A", "B1")>>}

\* A tube record of the dump: code_barre_tube and id_arrivee vary.
TubeRecord(code_barre, id_arrivee) ==
    <<code_barre, id_arrivee, "1", "1", "1", "NULL", "NULL", "10", "10",
      "'Blood'", "NULL", "NULL">>

StoreDumps ==
    {<<TubeRecord("1", "1"), TubeRecord("1", "1")>>,
     <<TubeRecord("2", "9"), TubeRecord("NULL", "1")>>}

InitStore ==
    /\ tubes = <<>>
    /\ usages = <<>>
    /\ boxes = <<>>
    /\ individuals = Put(<<>>, 1, [individual_id |-> Str("I1")])
    /\ samples = <<>>
    /\ imp \in {ImportOf(rows) : rows \in StoreFiles}
    /\ mysql \in {MysqlOf(<<<<"1", "'B1'", "NULL", "NULL">>>>,
                          <<<<"1", "1", "NULL", "'S1'", "NULL", "NULL", "NULL">>>>,
                          tube) : tube \in StoreDumps}
    /\ indrun = NoIndividualsRun
    /\ inflight = NoRequests
    /\ resp = Reply("none", 0, "")

PlaceTube == Quiet /\ \E data \in StoreTubeBodies : create_tube(data)

MoveTube ==
    Quiet /\ \E id \in TubeIds, data \in StoreUpdateBodies : update_tube(id, data)

NextStore ==
    \/ PlaceTube
    \/ MoveTube
    \/ ImportPurge
    \/ ImportBoxes
    \/ ImportRow
    \/ ImportFinish
    \/ MysqlBoxes
    \/ MysqlArrivals
    \/ MysqlTube
    \/ MysqlCommit

SpecStore == InitStore /\ [][NextStore]_vars

(***************************************************************************)
(* The position shown for a tube: the store holds one tube at any row and  *)
(* column of the display range; it is shown by GET /api/tubes/<id> and     *)
(* removed.  Row Len(Letters) + 1 is the first row shown as a number.      *)
(***************************************************************************)
PositionBodies ==
    {[barcode |-> Str("X1"), position_row |-> Num(r), position_col |-> Num(c)] :
        r \in 1..(Len(Letters) + 1), c \in 1..MaxCol}

InitPosition ==
    /\ tubes \in {Put(<<>>, 1, NewTube(data)) : data \in PositionBodies}
    /\ usages = <<>>
    /\ boxes = <<>>
    /\ individuals = <<>>
    /\ samples = <<>>
    /\ imp = NoImport
    /\ mysql = NoMysql
    /\ indrun = NoIndividualsRun
    /\ inflight = NoRequests
    /\ resp = Reply("none", 0, "")

UnshelveTube == \E id \in TubeIds : delete_tube(id)

ShowTube == \E id \in TubeIds : get_tube(id)

NextPosition == UnshelveTube \/ ShowTube

SpecPosition == InitPosition /\ [][NextPosition]_vars

(***************************************************************************)
(* The status of tubes: tubes are created with a current and an initial    *)
(* volume that are unset, zero or positive, on either side of the          *)
(* thresholds, then shown one by one and listed by status.                 *)
(***************************************************************************)
StatusNames == {"Empty", "Critical", "Low", "Available"}

StatusBodies ==
    {[barcode |-> Str(b), current_volume |-> cv, initial_volume |-> iv] :
        b \in Barcodes,
        cv \in {Null, Num(0), Num(5), Num(10), Num(20), Num(25)},
        iv \in {Null, Num(0), Num(100)}}

StockTube == \E data \in StatusBodies : create_tube(data)

DiscardTube == \E id \in TubeIds : delete_tube(id)

ShowStatus == \E id \in TubeIds : get_tube(id)

ListTubes == \E status \in StatusNames \cup {""} : get_tubes(status)

NextStatus == StockTube \/ DiscardTube \/ ShowStatus \/ ListTubes

SpecStatus == Init /\ [][NextStatus]_vars

(***************************************************************************)
(* The links between the tables: individuals, samples, boxes, tubes and    *)
(* usages are created, re-linked and deleted through the API on an empty   *)
(* database.  The request bodies name parents that exist, parents that do  *)
(* not exist yet and no parent.                                            *)
(***************************************************************************)
IndividualBodies == {[individual_id |-> Str("I1")]}

SampleBodies ==
    {[sample_id |-> Str("S1"), individual_id |-> r] : r \in {Null, Num(1), Num(2)}}

BoxBodies == {[name |-> Str("B1")]}

LinkTubeBodies ==
    {[barcode |-> Str("X1"), sample_id |-> s, box_id |-> b,
      initial_volume |-> Num(10), current_volume |-> Num(10)] :
        s \in {Null, Num(1)}, b \in {Null, Num(1)}}

LinkUpdateBodies == {[box_id |-> Num(MaxBoxId + 1)]}

LinkUsageBodies ==
    {[tube_id |-> Num(t), volume_taken |-> Num(5),
      date_out |-> Str("2024-01-15"), user_name |-> Str("ana")] :
        t \in 1..(MaxTubeId + 1)}

ParentIds == 1..(MaxBoxId + 1)

CreateIndividual == \E data \in IndividualBodies : create_individual(data)

DeleteIndividual == \E id \in ParentIds : delete_individual(id)

CreateSample == \E data \in SampleBodies : create_sample(data)

DeleteSample == \E id \in ParentIds : delete_sample(id)

CreateBox == \E data \in BoxBodies : create_box(data)

DeleteBox == \E id \in ParentIds : delete_box(id)

LinkTube == \E data \in LinkTubeBodies : create_tube(data)

RelinkTube == \E id \in TubeIds, data \in LinkUpdateBodies : update_tube(id, data)

UnlinkTube == \E id \in TubeIds : delete_tube(id)

UseTube ==
    \E data \in LinkUsageBodies : create_usage(data) /\ Len(usages') <= MaxUsages

NextLinks ==
    \/ CreateIndividual
    \/ DeleteIndividual
    \/ CreateSample
    \/ DeleteSample
    \/ CreateBox
    \/ DeleteBox
    \/ LinkTube
    \/ RelinkTube
    \/ UnlinkTube
    \/ UseTube

SpecLinks == Init /\ [][NextLinks]_vars

(***************************************************************************)
(* Helpers of the properties below.                                        *)
(***************************************************************************)
\* The tube a usage request names, when it names one that exists (else 0).
NamedTube(data) ==
    IF data.tube_id.k = "num" /\ data.tube_id.n \in DOMAIN tubes
    THEN data.tube_id.n
    ELSE 0

\* The request carries a number as its amount.
HasAmount(data) == ~IsNone(data.volume_taken) /\ ToFloat(data.volume_taken).ok

Amount(data) == ToFloat(data.volume_taken).n

KnownVolume(id) == id \in DOMAIN tubes /\ tubes[id].current_volume.k = "num"

\* The usage requests whose amount is a number, and those among them whose
\* amount is not positive.
NumericBodies == {data \in UsageBodies : HasAmount(data)}

NonPositiveBodies == {data \in NumericBodies : Amount(data) <= 0}

\* The step stored one more usage row and kept the earlier ones.
UsageStored ==
    /\ Len(usages') = Len(usages) + 1
    /\ SubSeq(usages', 1, Len(usages)) = usages

LastUsage == usages'[Len(usages')]

\* C1: every tube whose current_volume is set has current_volume >= 0 and,
\* when initial_volume is set too, current_volume <= initial_volume.
C1_VolumeWithinBounds ==
    \A i \in DOMAIN tubes :
        tubes[i].current_volume.k = "num" =>
            /\ tubes[i].current_volume.n >= 0
            /\ tubes[i].initial_volume.k = "num" =>
                   tubes[i].current_volume.n <= tubes[i].initial_volume.n

\* C2 as stated: a step that changes the current_volume of an existing tube
\* is a successful create_usage.
C2_OnlyUsageChangesVolume ==
    [][\A i \in DOMAIN tubes \cap DOMAIN tubes' :
          tubes'[i].current_volume # tubes[i].current_volume =>
              resp' = Reply("create_usage", 201, "")]_vars

\* C2 amended: a step that changes the current_volume of an existing tube is
\* a successful create_usage or a successful update_tube, and an update_tube
\* whose body has no key current_volume changes no tube's current_volume.
C2_VolumeWriters ==
    [][/\ \A i \in DOMAIN tubes \cap DOMAIN tubes' :
             tubes'[i].current_volume # tubes[i].current_volume =>
                 \/ resp' = Reply("create_usage", 201, "")
                 \/ resp' = Reply("update_tube", 200, "")
       /\ \A id \in TubeIds, data \in LedgerUpdateBodies :
             (/\ resp'.op = "update_tube"
              /\ "current_volume" \notin DOMAIN data
              /\ update_tube(id, data)) =>
                 \A i \in DOMAIN tubes :
                     /\ i \in DOMAIN tubes'
                     /\ tubes'[i].current_volume = tubes[i].current_volume]_vars

\* Witness of C2: an update_tube has just overwritten a current_volume.
C2_Witness ==
    /\ resp = Reply("update_tube", 200, "")
    /\ \E i \in DOMAIN tubes :
          /\ tubes[i].current_volume = Num(5)
          /\ tubes[i].initial_volume = Num(10)
    /\ usages = <<>>

\* C3: a create_usage whose amount exceeds the known current_volume of the
\* tube it names is refused with status 400, stores no usage and changes no
\* tube; for a positive amount the refusal is the insufficient-volume one.
C3_InsufficientRejected ==
    [][\A data \in NumericBodies :
          (/\ resp'.op = "create_usage"
           /\ KnownVolume(NamedTube(data))
           /\ Amount(data) > tubes[NamedTube(data)].current_volume.n
           /\ create_usage(data)) =>
              /\ resp'.status = 400
              /\ Amount(data) > 0 => resp'.error = "insufficient_volume"
              /\ usages' = usages
              /\ tubes' = tubes]_vars

\* Witness of C3: a withdrawal was refused as insufficient on a tube that
\* holds 10.
C3_Witness ==
    /\ resp = Reply("create_usage", 400, "insufficient_volume")
    /\ 1 \in DOMAIN tubes
    /\ tubes[1].current_volume = Num(10)

\* C4 as stated: every usage row a step stores names an existing tube and
\* has a volume_taken that is set, > 0 and, when the tube's current_volume
\* is known, <= that current_volume before the step.
C4_EveryUsageHasTubeAndAmount ==
    [][UsageStored =>
          /\ LastUsage.tube_id.k = "num"
          /\ LastUsage.tube_id.n \in DOMAIN tubes
          /\ LastUsage.volume_taken.k = "num"
          /\ LastUsage.volume_taken.n > 0
          /\ KnownVolume(LastUsage.tube_id.n) =>
                 LastUsage.volume_taken.n
                     <= tubes[LastUsage.tube_id.n].current_volume.n]_vars

\* Every stored usage whose tube_id is neither null nor 0 names a tube of
\* the store.
UsagesNameTubes ==
    \A u \in DOMAIN usages :
        Truthy(usages[u].tube_id) =>
            /\ usages[u].tube_id.k = "num"
            /\ usages[u].tube_id.n \in DOMAIN tubes

\* C4 amended: a usage row is stored with or without a tube and an amount;
\* when its tube_id is neither null nor 0 it names an existing tube (then and
\* in every later state), when its volume_taken is set it is > 0, and when
\* both hold and the tube's current_volume is known the amount is <= that
\* current_volume before the step.  A request whose amount is a number <= 0
\* is refused as not positive and changes nothing.
C4_StoredUsageValid ==
    [][/\ UsagesNameTubes'
       /\ UsageStored =>
             /\ Truthy(LastUsage.tube_id) =>
                    /\ LastUsage.tube_id.k = "num"
                    /\ LastUsage.tube_id.n \in DOMAIN tubes
             /\ ~IsNone(LastUsage.volume_taken) =>
                    /\ LastUsage.volume_taken.k = "num"
                    /\ LastUsage.volume_taken.n > 0
             /\ (/\ Truthy(LastUsage.tube_id)
                 /\ ~IsNone(LastUsage.volume_taken)
                 /\ KnownVolume(LastUsage.tube_id.n)) =>
                    LastUsage.volume_taken.n
                        <= tubes[LastUsage.tube_id.n].current_volume.n
       /\ \A data \in NonPositiveBodies :
             (resp'.op = "create_usage" /\ create_usage(data)) =>
                 /\ resp' = Reply("create_usage", 400, "not_positive")
                 /\ usages' = usages
                 /\ tubes' = tubes]_vars

\* Witness of C4: a usage stored for tube 1 with amount 5 taken from 10, and
\* a request just refused as not positive.
C4_Witness ==
    /\ resp = Reply("create_usage", 400, "not_positive")
    /\ Len(usages) = 1
    /\ usages[1].tube_id = Num(1)
    /\ usages[1].volume_taken = Num(5)
    /\ 1 \in DOMAIN tubes
    /\ tubes[1].current_volume = Num(5)

\* The tube table a successful create_usage(data) must leave: the named
\* tube's known current_volume lowered by the amount, nothing else touched.
Decremented(data) ==
    IF NamedTube(data) # 0 /\ KnownVolume(NamedTube(data)) /\ HasAmount(data)
    THEN [i \in DOMAIN tubes |->
             IF i = NamedTube(data)
             THEN [tubes[i] EXCEPT !.current_volume =
                                       Num(tubes[i].current_volume.n - Amount(data))]
             ELSE tubes[i]]
    ELSE tubes

\* The request is one the handler must refuse: an amount that is no number
\* or not positive, a tube that does not exist, more than the tube holds, or
\* a malformed date.
MustReject(data) ==
    \/ ~IsNone(data.volume_taken) /\ ~HasAmount(data)
    \/ HasAmount(data) /\ Amount(data) <= 0
    \/ Truthy(data.tube_id) /\ NamedTube(data) = 0
    \/ /\ HasAmount(data)
       /\ KnownVolume(NamedTube(data))
       /\ Amount(data) > tubes[NamedTube(data)].current_volume.n
    \/ data.date_out = Str("15/01/2024")

\* C5: a create_usage step that answers 201 stores exactly one usage row
\* together with the decrement of the named tube (a known current_volume v
\* becomes v - a) and answers no request that must be refused; a create_usage
\* step that answers anything else stores no usage and changes no tube; no
\* other step adds a usage row.
C5_UsageAndDecrementTogether ==
    [][/\ resp' = Reply("create_usage", 201, "") =>
              /\ UsageStored
              /\ \A data \in UsageBodies :
                    create_usage(data) =>
                        /\ ~MustReject(data)
                        /\ LastUsage.tube_id = data.tube_id
                        /\ LastUsage.volume_taken =
                               (IF HasAmount(data) THEN Num(Amount(data)) ELSE Null)
                        /\ tubes' = Decremented(data)
       /\ (resp'.op = "create_usage" /\ resp'.status # 201) =>
              usages' = usages /\ tubes' = tubes
       /\ usages' # usages => resp' = Reply("create_usage", 201, "")]_vars

\* Witness of C5: 5 taken from a tube that held 10, recorded by one usage.
C5_Witness ==
    /\ resp = Reply("create_usage", 201, "")
    /\ Len(usages) = 1
    /\ usages[1].tube_id = Num(1)
    /\ usages[1].volume_taken = Num(5)
    /\ 1 \in DOMAIN tubes
    /\ tubes[1].initial_volume = Num(10)
    /\ tubes[1].current_volume = Num(5)

(***************************************************************************)
(* Helpers of the properties of the TSV import.                            *)
(***************************************************************************)
ImportDone == imp.pc = "done"

\* Two tube rows in the same box at the same (position_row, position_col),
\* box and both coordinates set.
SamePlace(t1, t2) ==
    /\ ~IsNone(t1.box_id) /\ t1.box_id = t2.box_id
    /\ ~IsNone(t1.position_row) /\ t1.position_row = t2.position_row
    /\ ~IsNone(t1.position_col) /\ t1.position_col = t2.position_col

\* The barcode of row i of the file, as the import reads it.
RowBarcode(i) == Strip(imp.rows[i].barcode)

\* Row i is the first row of the file with its (non-empty) barcode; row i
\* repeats the barcode of an earlier row.
IsFirst(i) ==
    /\ RowBarcode(i) # ""
    /\ \A j \in 1..(i - 1) : RowBarcode(j) # RowBarcode(i)

IsRepeat(i) ==
    /\ RowBarcode(i) # ""
    /\ \E j \in 1..(i - 1) : RowBarcode(j) = RowBarcode(i)

\* Row i names a box and a position that an earlier first occurrence of a
\* barcode named with the same texts.
Displaced(i) ==
    /\ HasPosKey(imp.rows[i])
    /\ \E j \in 1..(i - 1) :
          /\ IsFirst(j)
          /\ HasPosKey(imp.rows[j])
          /\ PosKey(imp.rows[j]) = PosKey(imp.rows[i])

TubesWithBarcode(b) == {t \in DOMAIN tubes : tubes[t].barcode = Str(b)}

\* The rows the loop has gone through.
RowsDone == 1..(imp.i - 1)

\* Rows i and j name the same box and the same grid position, whatever the
\* spelling: same box name, same column number, same row letter.
SameBoxAndPosition(i, j) ==
    /\ Strip(imp.rows[i].nom_boite) # ""
    /\ Strip(imp.rows[i].nom_boite) = Strip(imp.rows[j].nom_boite)
    /\ ~IsNone(parse_position_h(imp.rows[i].pos_h))
    /\ parse_position_h(imp.rows[i].pos_h) = parse_position_h(imp.rows[j].pos_h)
    /\ ~IsNone(parse_position_v(imp.rows[i].pos_v))
    /\ parse_position_v(imp.rows[i].pos_v) = parse_position_v(imp.rows[j].pos_v)

\* Every row of the file has a barcode and no two rows have the same.
BarcodesDistinct ==
    \A i \in 1..Len(imp.rows) : IsFirst(i)

\* C6: after a run of the TSV import no two tubes of the same box have the
\* same stored (position_row, position_col), both set.
C6_NoSharedPositionAfterImport ==
    ImportDone =>
        \A t1, t2 \in DOMAIN tubes :
            t1 # t2 => ~SamePlace(tubes[t1], tubes[t2])

\* C8 as stated: after a run, a barcode that occurs in two or more rows has
\* exactly one tube, and the rows counted as duplicate-barcode are the
\* occurrences after the first.
C8_ExactlyOneTubePerRepeatedBarcode ==
    ImportDone =>
        /\ \A i \in 1..Len(imp.rows) :
              IsRepeat(i) => Cardinality(TubesWithBarcode(RowBarcode(i))) = 1
        /\ imp.skipped_dup_barcode =
               Cardinality({i \in 1..Len(imp.rows) : IsRepeat(i)})

\* C8 amended: at every point of the loop and after the run, each barcode of
\* the rows gone through has one tube, built from its first occurrence, or
\* none when that first occurrence was skipped as duplicate-position; every
\* tube comes from such a first occurrence; and the rows counted as
\* duplicate-barcode are exactly the occurrences after the first.
C8_AtMostOneTubePerBarcode ==
    imp.pc \in {"rows", "done"} =>
        /\ \A i \in RowsDone :
              IsFirst(i) =>
                  IF Displaced(i)
                  THEN TubesWithBarcode(RowBarcode(i)) = {}
                  ELSE /\ Cardinality(TubesWithBarcode(RowBarcode(i))) = 1
                       /\ \A t \in TubesWithBarcode(RowBarcode(i)) :
                             /\ tubes[t].position_col =
                                    parse_position_h(imp.rows[i].pos_h)
                             /\ tubes[t].position_row =
                                    parse_position_v(imp.rows[i].pos_v)
                             /\ tubes[t].current_volume =
                                    parse_volume(imp.rows[i].volume)
        /\ \A t \in DOMAIN tubes :
              \E i \in RowsDone :
                  IsFirst(i) /\ ~Displaced(i) /\ tubes[t].barcode = Str(RowBarcode(i))
        /\ imp.skipped_dup_barcode = Cardinality({i \in RowsDone : IsRepeat(i)})

\* Witness of C8: a finished run over X1, X2, X2 where X2 first came on X1's
\* position: X1 has its tube, X2 has none, one row was counted as
\* duplicate-position and one as duplicate-barcode.
C8_Witness ==
    /\ ImportDone
    /\ Len(imp.rows) = 3
    /\ RowBarcode(1) = "X1" /\ RowBarcode(2) = "X2" /\ RowBarcode(3) = "X2"
    /\ Cardinality(TubesWithBarcode("X1")) = 1
    /\ TubesWithBarcode("X2") = {}
    /\ imp.skipped_dup_position = 1
    /\ imp.skipped_dup_barcode = 1

\* C9: after a run over rows whose barcodes are all set and distinct, a row
\* that names the box and position of an earlier row has no tube, and the
\* rows counted as duplicate-position are exactly those rows.
C9_OnlyFirstAtPosition ==
    (ImportDone /\ BarcodesDistinct) =>
        /\ \A j \in 1..Len(imp.rows) :
              (\E i \in 1..(j - 1) : SameBoxAndPosition(i, j)) =>
                  TubesWithBarcode(RowBarcode(j)) = {}
        /\ imp.skipped_dup_position =
               Cardinality({j \in 1..Len(imp.rows) :
                               \E i \in 1..(j - 1) : SameBoxAndPosition(i, j)})

(***************************************************************************)
(* Helpers of the properties of the tube store.                            *)
(***************************************************************************)
\* Only the API has written so far: no import has started.
OnlyRequests == imp.pc = "start" /\ mysql.pc = "start"

NoSharedBarcode(ts) ==
    \A t1, t2 \in DOMAIN ts : t1 # t2 => ts[t1].barcode # ts[t2].barcode

\* Another tube than `id` holds the barcode.
HeldByOther(id, barcode) ==
    \E t \in DOMAIN tubes : t # id /\ tubes[t].barcode = barcode

\* C7: in the states create_tube and update_tube reach, no two tubes of the
\* same box have the same (position_row, position_col), both set.
C7_NoSharedPosition ==
    OnlyRequests =>
        \A t1, t2 \in DOMAIN tubes :
            t1 # t2 => ~SamePlace(tubes[t1], tubes[t2])

TubeShown == resp.op = "get_tube" /\ resp.status = 200

\* The shown position read back: its first character as the row letter,
\* the rest as the column number.
ParsedBack(text) ==
    <<parse_position_v(CharAt(text, 1)),
      parse_position_h(SubSeq(text, 2, Len(text)))>>

\* C11 as stated: for every row in 1..26 and every column in 1..MaxCol, the
\* position shown for a tube at (row, column) parses back to (row, column).
C11_RoundTrip ==
    (TubeShown /\ resp.body.position_row.n \in 1..Len(Letters)
               /\ resp.body.position_col.n \in 1..MaxCol)
    => ParsedBack(resp.body.position_display.s)
         = <<resp.body.position_row, resp.body.position_col>>

\* C11: the position shown for a tube at row 1..9 (A..I) and column
\* 1..MaxCol parses back to the same row and column; the position shown for
\* a row in 10..26 (J..Z) parses back to no row and the same column.
C11_RoundTripToRowI ==
    (TubeShown /\ resp.body.position_row.n \in 1..Len(Letters)
               /\ resp.body.position_col.n \in 1..MaxCol)
    => ParsedBack(resp.body.position_display.s)
         = <<IF resp.body.position_row.n <= 9
             THEN resp.body.position_row ELSE Null,
             resp.body.position_col>>

\* A tube at row 9 and the last column has been shown, as "I" and the column.
C11_Witness ==
    /\ TubeShown
    /\ resp.body.position_row = Num(9)
    /\ resp.body.position_col = Num(MaxCol)
    /\ resp.body.position_display = Str("I" \o IntText(MaxCol))

\* C12: the status shown for a tube is decided by its current and initial
\* volume, thresholds in this order: Empty when current_volume is unset or
\* <= 0; else Critical when current_volume < 10; else Low when
\* initial_volume is known and current_volume is under a quarter of it;
\* else Available.  Two tubes of one listing with the same two volumes have
\* the same status.
C12_StatusByThresholds ==
    /\ TubeShown =>
         LET cv == resp.body.current_volume
             iv == resp.body.initial_volume
             empty == IsNone(cv) \/ cv.n <= 0
             critical == ~empty /\ cv.n < 10
             low == ~empty /\ ~critical /\ ~IsNone(iv) /\ 4 * cv.n < iv.n
         IN  /\ empty => resp.body.status = "Empty"
             /\ critical => resp.body.status = "Critical"
             /\ low => resp.body.status = "Low"
             /\ (~empty /\ ~critical /\ ~low) => resp.body.status = "Available"
    /\ resp.op = "get_tubes" =>
         \A i, j \in DOMAIN resp.body :
            (/\ resp.body[i].current_volume = resp.body[j].current_volume
             /\ resp.body[i].initial_volume = resp.body[j].initial_volume)
            => resp.body[i].status = resp.body[j].status

\* A tube holding 20 of 100 has been shown as Low.
C12_Witness ==
    /\ TubeShown
    /\ resp.body.current_volume = Num(20)
    /\ resp.body.initial_volume = Num(100)
    /\ resp.body.status = "Low"

\* C13: a listing by status S returns exactly the tubes whose status is S,
\* and every tube passes exactly one of the four status filters.
C13_FilterAgreesWithStatus ==
    [][\A status \in StatusNames :
         (resp'.op = "get_tubes" /\ resp'.arg = status /\ get_tubes(status)) =>
            /\ \A i \in DOMAIN tubes :
                  (i \in DOMAIN resp'.body) <=> (get_status(tubes[i]) = status)
            /\ \A i \in DOMAIN resp'.body : resp'.body[i].status = status
            /\ \A i \in DOMAIN tubes :
                  Cardinality({s \in StatusNames : StatusFilter(tubes[i], s)}) = 1
      ]_vars

\* A listing of the Low tubes returned one tube and left another out.
C13_Witness ==
    /\ resp.op = "get_tubes" /\ resp.arg = "Low"
    /\ \E i, j \in DOMAIN tubes :
          /\ i \in DOMAIN resp.body /\ j \notin DOMAIN resp.body
          /\ tubes[i].current_volume = Num(20)
          /\ tubes[i].initial_volume = Num(100)

(***************************************************************************)
(* Properties of the links between the tables.                             *)
(***************************************************************************)
\* Nothing of the store changes in this step.
StoreUnchanged == UNCHANGED <<tubes, usages, boxes, individuals, samples>>

\* The rows that refer to the parent `id` of a kind, read from the reference
\* columns of the child table.
Children(kind, id) ==
    CASE kind = "individual" ->
            {s \in DOMAIN samples : samples[s].individual_id = Num(id)}
      [] kind = "sample" -> {t \in DOMAIN tubes : tubes[t].sample_id = Num(id)}
      [] kind = "box" -> {t \in DOMAIN tubes : tubes[t].box_id = Num(id)}
      [] kind = "tube" -> {u \in DOMAIN usages : usages[u].tube_id = Num(id)}

Parents(kind) ==
    CASE kind = "individual" -> DOMAIN individuals
      [] kind = "sample" -> DOMAIN samples
      [] kind = "box" -> DOMAIN boxes
      [] kind = "tube" -> DOMAIN tubes

ParentKinds == {"individual", "sample", "box", "tube"}

\* C14: a delete request for an individual with samples, a sample with
\* tubes, a box with tubes or a tube with usages is answered 400 and changes
\* nothing in the store; and whenever a step removes a parent, that parent
\* had no children before the step and no row refers to it after the step.
C14_DeleteBlockedByChildren ==
    [][/\ \A kind \in ParentKinds : \A id \in Parents(kind) :
            (resp'.op = "delete_" \o kind /\ Children(kind, id) # {}
             /\ CASE kind = "individual" -> delete_individual(id)
                  [] kind = "sample" -> delete_sample(id)
                  [] kind = "box" -> delete_box(id)
                  [] kind = "tube" -> delete_tube(id))
            => (resp'.status = 400 /\ StoreUnchanged)
       /\ \A kind \in ParentKinds : \A id \in Parents(kind) :
            (id \notin Parents(kind)')
            => (Children(kind, id) = {} /\ Children(kind, id)' = {})
      ]_vars

\* A request to delete a sample that has a tube was refused, in a store
\* where every kind of parent has a child.
C14_Witness ==
    /\ resp = Reply("delete_sample", 400, "has_tubes")
    /\ \A kind \in ParentKinds : \E id \in Parents(kind) : Children(kind, id) # {}

\* C15: every reference that is set names a row that exists: the sample_id
\* and box_id of every tube, the individual_id of every sample and the
\* tube_id of every usage; a create or update naming a missing row is
\* answered 404 and stores nothing.
C15_ReferencesExist ==
    /\ \A t \in DOMAIN tubes :
          /\ ~IsNone(tubes[t].sample_id) => tubes[t].sample_id.n \in DOMAIN samples
          /\ ~IsNone(tubes[t].box_id) => tubes[t].box_id.n \in DOMAIN boxes
    /\ \A s \in DOMAIN samples :
          ~IsNone(samples[s].individual_id)
             => samples[s].individual_id.n \in DOMAIN individuals
    /\ \A u \in DOMAIN usages :
          ~IsNone(usages[u].tube_id) => usages[u].tube_id.n \in DOMAIN tubes

\* C16: a tube that a step creates has both of initial_volume and
\* current_volume set, or neither: a volume given alone is copied to the
\* other column.
C16_NewTubeBothVolumes ==
    [][\A t \in DOMAIN tubes' \ DOMAIN tubes :
          IsNone(tubes'[t].initial_volume) <=> IsNone(tubes'[t].current_volume)
      ]_vars

\* C17: after a run of the TSV import, the tube of every imported row has
\* the row of the letter the file gave (A is 1, J is 10) and the column of
\* the number the file gave, also outside the 9 x 9 grid.
C17_OutOfGridStoredAsGiven ==
    ImportDone =>
       \A i \in 1..Len(imp.rows) :
          (IsFirst(i) /\ ~Displaced(i)) =>
             \E t \in TubesWithBarcode(RowBarcode(i)) :
                /\ tubes[t].position_row
                      = Num(IndexIn(Letters, Upper(Strip(imp.rows[i].pos_v))))
                /\ tubes[t].position_col
                      = Num(IntOfText(Strip(imp.rows[i].pos_h)))

\* The run has stopped, by its last commit or by an exception.
ImportStopped == imp.pc \in {"done", "failed"}

\* Row i can be stored.
Storable(i) == ~Unstorable(ImportedTube(imp.rows[i], Null))

\* C18: a row that fails does not stop the tube import: when the run has
\* stopped it has gone through every row, and every row that can be stored,
\* is the first of its barcode and names no position taken by an earlier row
\* has its tube in the database.
C18_FailingRowDoesNotStopRun ==
    ImportStopped =>
       /\ imp.i > Len(imp.rows)
       /\ \A i \in 1..Len(imp.rows) :
             (Storable(i) /\ IsFirst(i) /\ ~Displaced(i))
                => TubesWithBarcode(RowBarcode(i)) # {}

\* The tubes of the store, each as (barcode, box name, row, column).
StoredPlaces ==
    {<<tubes[t].barcode.s,
       IF tubes[t].box_id.k = "num" /\ tubes[t].box_id.n \in DOMAIN boxes
       THEN boxes[tubes[t].box_id.n].name.s ELSE "",
       tubes[t].position_row, tubes[t].position_col>> : t \in DOMAIN tubes}

\* The tubes one complete run over the file gives: one per row that is the
\* first of its barcode and names no position an earlier kept row named.
SourcePlaces ==
    {<<RowBarcode(i), Strip(imp.rows[i].nom_boite),
       parse_position_v(imp.rows[i].pos_v), parse_position_h(imp.rows[i].pos_h)>> :
        i \in {j \in 1..Len(imp.rows) : IsFirst(j) /\ ~Displaced(j)}}

\* Record i of the dump is inserted by a complete run on a database
\* without tubes: its arrival is in the dump and no earlier such record has
\* its code.
DumpKept(i) ==
    /\ mysql.tube[i][2] \in {a[1] : a \in Range(mysql.arrivee)}
    /\ \A j \in 1..(i - 1) :
          mysql.tube[j][1] = mysql.tube[i][1]
             => mysql.tube[j][2] \notin {a[1] : a \in Range(mysql.arrivee)}

\* The tubes one complete run over the dump gives (all in box B1).
DumpPlaces ==
    {<<MysqlBarcode(parse_value(mysql.tube[i][1])), "B1",
       parse_value(mysql.tube[i][4]), parse_value(mysql.tube[i][5])>> :
        i \in {j \in 1..Len(mysql.tube) : DumpKept(j)}}

\* C19: whenever a run of the TSV import or of the MySQL import has gone to
\* its end, the first or a later one, after a complete or a stopped earlier
\* run, the store holds exactly the tubes one complete run gives (barcode,
\* box, row, column), one tube per barcode.
C19_RerunGivesSameTubes ==
    /\ ImportDone => StoredPlaces = SourcePlaces
    /\ mysql.pc = "done" => StoredPlaces = DumpPlaces
    /\ (ImportDone \/ mysql.pc = "done") =>
          \A t1, t2 \in DOMAIN tubes :
             tubes[t1].barcode = tubes[t2].barcode => t1 = t2

\* A second run of the TSV import has gone to its end after a first run
\* that was stopped, and the store holds two tubes.
C19_Witness ==
    /\ ImportDone
    /\ imp.run > 1
    /\ imp.earlier = "failed"
    /\ Cardinality(DOMAIN tubes) >= 2

\* Row i is kept: the first of its barcode, at no position an earlier kept
\* row named.
Kept(i) == IsFirst(i) /\ ~Displaced(i)

\* Row j, the first of its barcode, names the box, row and column of an
\* earlier row that was skipped for its barcode, and the position of no
\* earlier kept row.
AfterSkippedDuplicate(j) ==
    /\ IsFirst(j)
    /\ HasPosKey(imp.rows[j])
    /\ \E i \in 1..(j - 1) : IsRepeat(i) /\ SameBoxAndPosition(i, j)
    /\ \A k \in 1..(j - 1) :
          (Kept(k) /\ HasPosKey(imp.rows[k]))
             => PosKey(imp.rows[k]) # PosKey(imp.rows[j])

\* C20: a row skipped for its barcode does not reserve its position: a
\* later row, the first of its barcode, that names the same box and position
\* as the skipped row and as no kept row, gets its tube, and the count of
\* duplicate positions counts only the rows displaced by a kept row.
C20_SkippedDuplicateReservesNothing ==
    /\ \A j \in RowsDone :
          AfterSkippedDuplicate(j) => TubesWithBarcode(RowBarcode(j)) # {}
    /\ imp.pc \in {"rows", "done"} =>
          imp.skipped_dup_position
             = Cardinality({j \in RowsDone : IsFirst(j) /\ Displaced(j)})

\* The run has imported a row at the position of an earlier row that it had
\* skipped for its barcode.
C20_Witness ==
    /\ ImportDone
    /\ imp.skipped_dup_barcode > 0
    /\ imp.skipped_dup_position = 0
    /\ \E j \in RowsDone :
          AfterSkippedDuplicate(j) /\ TubesWithBarcode(RowBarcode(j)) # {}

\* The rows of the file that name the box `name`.
RowsNaming(name) == {i \in 1..Len(imp.rows) : Strip(imp.rows[i].nom_boite) = name}

\* The box names of the file.
FileBoxNames == {Strip(imp.rows[i].nom_boite) : i \in 1..Len(imp.rows)} \ {""}

\* The boxes in the store called `name`.
BoxesNamed(name) == {id \in DOMAIN boxes : boxes[id].name = Str(name)}

\* The box carries the freezer, the type and the number of the row.
BoxDescribedBy(box, row) ==
    /\ box.freezer = build_freezer_info(Col(row, "frigo"), Col(row, "etage"))
    /\ box.box_type = Str(IF Col(row, "type_boite") = "" THEN "stock"
                          ELSE Col(row, "type_boite"))
    /\ box.notes = IF Col(row, "numero") = "" THEN Null
                   ELSE Str("No boite: " \o Col(row, "numero"))

\* The store holds one box per box name of the file and no other box, each
\* described by the first row that names it.
BoxesOfFile ==
    /\ \A id \in DOMAIN boxes : \E name \in FileBoxNames : boxes[id].name = Str(name)
    /\ \A name \in FileBoxNames :
          /\ Cardinality(BoxesNamed(name)) = 1
          /\ \A id \in BoxesNamed(name), i \in RowsNaming(name) :
                (\A j \in RowsNaming(name) : i <= j)
                    => BoxDescribedBy(boxes[id], imp.rows[i])

\* C21: the import creates exactly one box per distinct non-empty box name
\* of the rows, described (freezer, type, number) by the first row that
\* names it; reading the rows afterwards never changes a box, and every tube
\* created from a row that names a box is placed in the one box of that name.
C21_OneBoxPerName ==
    [][/\ (imp.pc = "purged" /\ imp'.pc = "rows") => BoxesOfFile'
       /\ imp.pc = "rows" =>
             /\ boxes' = boxes
             /\ BoxesOfFile
             /\ \A t \in DOMAIN tubes' \ DOMAIN tubes :
                   LET name == Strip(imp.rows[imp.i].nom_boite)
                   IN  IF name = "" THEN tubes'[t].box_id = Null
                       ELSE \E id \in BoxesNamed(name) : tubes'[t].box_id = Num(id)]_vars

\* The run is over, two rows that differ in freezer or type named the same
\* box, and a tube was created from the later one.
C21_Witness ==
    /\ imp.pc = "done"
    /\ \E i, j \in 1..Len(imp.rows) :
          /\ i < j
          /\ Strip(imp.rows[i].nom_boite) = Strip(imp.rows[j].nom_boite)
          /\ Strip(imp.rows[i].nom_boite) # ""
          /\ Col(imp.rows[i], "frigo") # Col(imp.rows[j], "frigo")
          /\ \E t \in DOMAIN tubes :
                /\ tubes[t].barcode = Str(Strip(imp.rows[j].barcode))
                /\ tubes[t].box_id # Null

\* The row the TSV import is about to read has a new barcode and a free
\* position, and its code is blank or the code of no individual.
UnlinkedRow ==
    LET row == imp.rows[imp.i]
    IN  /\ Strip(row.barcode) # ""
        /\ Strip(row.barcode) \notin imp.seen_barcodes
        /\ ~(HasPosKey(row) /\ PosKey(row) \in imp.seen_positions)
        /\ \/ Strip(row.code_principal) = ""
           \/ \A x \in DOMAIN individuals :
                 individuals[x].individual_id # Str(CleanCode(row))

\* The record the MySQL import is about to read is a tube with a new
\* barcode whose id_arrivee is the id of no arrival of the dump.
UnlinkedRecord ==
    LET raw == mysql.tube[mysql.i]
    IN  /\ Len(raw) = 12
        /\ parse_value(raw[1]).k = "num"
        /\ \A x \in DOMAIN tubes :
              tubes[x].barcode # Str(MysqlBarcode(parse_value(raw[1])))
        /\ \A k \in 1..Len(mysql.arrivee) :
              parse_value(mysql.arrivee[k][1]) # parse_value(raw[2])

\* The step stores one more tube, linked to no sample.
TubeAddedUnlinked ==
    \E t \in DOMAIN tubes' \ DOMAIN tubes : tubes'[t].sample_id = Null

\* C22: a row with a new barcode and a free position for which no
\* individual or sample is found still gives a tube, stored without a
\* sample link and counted as unlinked; neither import drops it.
C22_UnlinkedRowStillCreatesTube ==
    [][/\ (imp.pc = "rows" /\ imp'.pc = "rows" /\ imp'.i = imp.i + 1 /\ UnlinkedRow)
             => TubeAddedUnlinked /\ imp'.not_linked = imp.not_linked + 1
       /\ (mysql.pc = "tubes" /\ mysql'.pc = "tubes" /\ mysql'.i = mysql.i + 1
              /\ UnlinkedRecord)
             => TubeAddedUnlinked]_vars

\* The sample codes in the store.
SampleCodes == {samples[x].sample_id : x \in DOMAIN samples}

\* code, code_T1, ..., code_Tn
CodeCandidates(code, n) ==
    {Str(code)} \cup {Str(code \o "_T" \o IntText(k)) : k \in 1..n}

\* C23: a sample the tube import creates has a code that no sample of the
\* store holds, whether the sample was there before the run or was created
\* earlier in it; and the search for the code ends: the code is the row's
\* code or the code with a suffix no greater than the number of samples in
\* the store.
C23_NewSampleCodeIsFresh ==
    [][(imp.pc = "rows" /\ imp'.pc = "rows") =>
          \A s \in DOMAIN samples' \ DOMAIN samples :
              /\ samples'[s].sample_id \notin SampleCodes
              /\ samples'[s].sample_id \in
                     CodeCandidates(CleanCode(imp.rows[imp.i]),
                                    Cardinality(DOMAIN samples))]_vars

\* The run created a sample whose code carries the suffix _T2: the code and
\* the code with _T1 were taken.
C23_Witness ==
    /\ imp.pc = "done"
    /\ imp.samples_created > 0
    /\ Str("I1_T2") \in SampleCodes

\* The individuals whose code is the code of the row the import reads.
RowIndividuals ==
    LET row == imp.rows[imp.i]
    IN  IF Strip(row.code_principal) = "" THEN {}
        ELSE {x \in DOMAIN individuals :
                 individuals[x].individual_id = Str(CleanCode(row))}

\* The samples of the store that belong to individual k.
SamplesOf(k) == {s \in DOMAIN samples : samples[s].individual_id = Num(k)}

\* C24: when the individual of a row already has a sample, from before the
\* run or created earlier in it, the tube of the row is linked to a sample
\* of that individual and no sample is created; a sample is created only
\* for an individual that has none, so a run creates at most one sample per
\* individual.
C24_ExistingSampleReused ==
    [][(imp.pc = "rows" /\ imp'.pc = "rows") =>
          /\ \A t \in DOMAIN tubes' \ DOMAIN tubes, k \in RowIndividuals :
                SamplesOf(k) # {} =>
                    /\ samples' = samples
                    /\ \E s \in SamplesOf(k) : tubes'[t].sample_id = Num(s)
          /\ \A s \in DOMAIN samples' \ DOMAIN samples :
                /\ samples'[s].individual_id.k = "num"
                /\ SamplesOf(samples'[s].individual_id.n) = {}
                /\ Cardinality(DOMAIN samples') = Cardinality(DOMAIN samples) + 1]_vars

\* The run is over; it created one sample and linked two tubes to it, and
\* it linked a third tube to a sample that was there before the run.
C24_Witness ==
    /\ imp.pc = "done"
    /\ imp.samples_created = 1
    /\ imp.samples_reused = 2
    /\ \E t1, t2, t3 \in DOMAIN tubes :
          /\ t1 # t2
          /\ tubes[t1].sample_id = tubes[t2].sample_id
          /\ tubes[t1].sample_id # Null
          /\ tubes[t3].sample_id \notin {Null, tubes[t1].sample_id}

\* The number of tubes in the batches that were full when the run had
\* created n tubes.
InFullBatches(n) == BatchSize * (n \div BatchSize)

\* C25: the tube import commits after every BatchSize-th created tube and
\* once at the end.  When a run fails, the tubes of the batches committed
\* before stay in the store as they were and no tube created since the last
\* commit is stored: the number of tubes stored is a multiple of BatchSize.
\* When a run ends without failing, every tube it created is stored.
C25_FailureKeepsCommittedBatches ==
    [][/\ (imp.pc = "rows" /\ imp'.pc = "failed") =>
             /\ DOMAIN tubes' = 1..InFullBatches(imp.created)
             /\ \A t \in DOMAIN tubes' : tubes'[t] = tubes[t]
             /\ Cardinality(DOMAIN tubes') % BatchSize = 0
       /\ (imp.pc = "rows" /\ imp'.pc = "done") =>
             /\ tubes' = tubes
             /\ DOMAIN tubes' = 1..imp.created]_vars

\* The run failed after it had committed a full batch and created a tube
\* more: the batch is in the store, the later tube is not.
C25_Witness ==
    /\ imp.pc = "failed"
    /\ imp.created > BatchSize
    /\ Cardinality(DOMAIN tubes) = BatchSize

\* The tuples the VALUES list was written from: the fields that open them.
TupleStarts(fields) == {k \in 1..Len(fields) : fields[k][2]}

\* The number of fields of the tuple that opens at field k.
TupleLength(fields, k) ==
    Cardinality({j \in k..Len(fields) :
                    \A m \in (k + 1)..j : ~fields[m][2]})

\* The k-th smallest member of a set of numbers.
Nth(S, k) == CHOOSE x \in S : Cardinality({y \in S : y <= x}) = k

\* C26: parse_mysql_tuples gives one record per tuple of a well-formed
\* VALUES list and, in each record, one field per value of the tuple: a
\* comma, a parenthesis or an escaped quote inside a quoted string ends
\* neither a field nor a tuple.  Each field is the text of its value.
C26_OneRecordPerTuple ==
    mysql.pc = "parsed" =>
        LET starts == TupleStarts(mysql.fields)
        IN  /\ Len(mysql.records) = Cardinality(starts)
            /\ \A r \in 1..Len(mysql.records) :
                  LET k == Nth(starts, r)
                  IN  /\ Len(mysql.records[r]) = TupleLength(mysql.fields, k)
                      /\ \A j \in 1..Len(mysql.records[r]) :
                            mysql.records[r][j] = Strip(mysql.fields[k + j - 1][1])

\* A list of two tuples was parsed whose second tuple holds a quoted string
\* with a parenthesis and a comma in it, after a value with an escaped quote.
C26_Witness ==
    /\ mysql.pc = "parsed"
    /\ Len(mysql.records) = 2
    /\ \E k \in 2..Len(mysql.fields) :
          /\ mysql.fields[k] = <<"'d),('", TRUE>>
          /\ mysql.fields[k - 1][1] = "'e\\'f'"

\* The columns of the individuals file that are merged, each with the
\* field of the individual it is stored in.
MergedColumns ==
    {<<"Aliases", "aliases">>, <<"FamilyID", "family_id">>, <<"Sex", "sex">>,
     <<"Phenotype", "phenotype">>, <<"Projects", "projects">>,
     <<"OtherFamilyCodes", "other_family_codes">>}

\* No two individuals of the store share an individual_id.
IndividualIdsDistinct ==
    \A x, y \in DOMAIN individuals :
        individuals[x].individual_id = individuals[y].individual_id => x = y

\* C27: the individuals import merges.  Reading a row leaves every field of
\* an individual of the store as it was when the row's column is empty,
\* never gives the store two individuals with the same individual_id, and,
\* in a run that follows a finished run over the same file, creates no
\* individual and no sample.
C27_ImportMergesIndividuals ==
    [][(indrun.pc = "rows" /\ indrun'.pc = "rows" /\ indrun'.i = indrun.i + 1) =>
          /\ \A x \in DOMAIN individuals, c \in MergedColumns :
                Strip(indrun.rows[indrun.i][c[1]]) = ""
                    => individuals'[x][c[2]] = individuals[x][c[2]]
          /\ IndividualIdsDistinct'
          /\ indrun.earlier = "done" =>
                /\ DOMAIN individuals' = DOMAIN individuals
                /\ DOMAIN samples' = DOMAIN samples]_vars

\* The second run over a file has ended; the first one created an
\* individual and a sample, and the individual the store held before still
\* has its family and its project after a row for it that names no family.
C27_Witness ==
    /\ indrun.pc = "done"
    /\ indrun.earlier = "done"
    /\ indrun.individuals_updated > 1
    /\ Cardinality(DOMAIN individuals) > 1
    /\ Cardinality(DOMAIN samples) > 1
    /\ individuals[1].family_id = Str("F1")
    /\ individuals[1].projects = Str("P")
    /\ \E k \in 1..Len(indrun.rows) :
          Strip(indrun.rows[k].ID) = "I1" /\ indrun.rows[k].FamilyID = ""

\* C28: the counts of the import summary add up for every file.  The rows
\* read are the tubes created and the rows skipped for a repeated barcode,
\* for a taken position or for a blank barcode; the tubes created are the
\* linked and the unlinked ones; the linked ones are those whose sample was
\* created and those whose sample was reused; and when the run has ended
\* the store holds as many tubes as were created.
C28_SummaryCountsAddUp ==
    imp.pc \in {"rows", "done", "failed"} =>
        /\ imp.created + imp.skipped_dup_barcode + imp.skipped_dup_position
               + imp.skipped_no_barcode = imp.i - 1
        /\ imp.linked_to_individual + imp.not_linked = imp.created
        /\ imp.samples_created + imp.samples_reused = imp.linked_to_individual
        /\ imp.pc \in {"done", "failed"} =>
               Cardinality(DOMAIN tubes) = imp.created

\* The part of C28 that holds in every run: the sums of the counters, and
\* the number of tubes in the store when the run reaches its last commit.
CountsAddUpWhenDone ==
    imp.pc \in {"rows", "done", "failed"} =>
        /\ imp.created + imp.skipped_dup_barcode + imp.skipped_dup_position
               + imp.skipped_no_barcode = imp.i - 1
        /\ imp.linked_to_individual + imp.not_linked = imp.created
        /\ imp.samples_created + imp.samples_reused = imp.linked_to_individual
        /\ imp.pc = "done" => Cardinality(DOMAIN tubes) = imp.created

\* The sum of volume_taken over the usages of the tube among the first n
\* records of the usage table.
RECURSIVE TakenFrom(_, _)
TakenFrom(id, n) ==
    IF n = 0 THEN 0
    ELSE TakenFrom(id, n - 1)
         + (IF usages[n].tube_id = Num(id) /\ usages[n].volume_taken.k = "num"
            THEN usages[n].volume_taken.n ELSE 0)

\* Every tube that held a known volume at the start holds that volume less
\* what the usages recorded for it took.
LedgerConserved ==
    \A id \in DOMAIN tubes :
        LET start == InitLedgerTubes[id].current_volume
        IN  IF start.k = "num"
            THEN tubes[id].current_volume = Num(start.n - TakenFrom(id, Len(usages)))
            ELSE tubes[id].current_volume = start

\* C29: the volume ledger is conserved under create_usage.  After any
\* sequence of requests the current_volume of a tube whose volume was known
\* is its volume at the start less the sum of volume_taken over the usages
\* stored for it; every accepted request stores one record more, a request
\* that repeats an earlier one included, and is decremented again.
C29_LedgerConserved ==
    [][/\ LedgerConserved'
       /\ resp' = Reply("create_usage", 201, "") => Len(usages') = Len(usages) + 1
       /\ (resp'.op = "create_usage" /\ resp'.status # 201) => usages' = usages]_vars

\* Two accepted requests took the same amount from the same tube: two equal
\* records are stored and the tube holds its first volume less twice the
\* amount.
C29_Witness ==
    /\ Len(usages) >= 2
    /\ usages[1] = usages[2]
    /\ usages[1].tube_id = Num(1)
    /\ usages[1].volume_taken.k = "num"
    /\ tubes[1].current_volume.n + 2 * usages[1].volume_taken.n
           = InitLedgerTubes[1].current_volume.n

\* C30: under requests handled at the same time, the check and the
\* decrement of a request act as one step.  In every interleaving the
\* volume stored for a tube is never negative and is its volume at the
\* start less the sum of the amounts of the usages recorded for it, so a
\* request was accepted only if its amount fitted what the requests
\* accepted before it had left.
C30_ConcurrentWithdrawalsAtomic ==
    \A id \in DOMAIN tubes :
        InitLedgerTubes[id].current_volume.k = "num" =>
            /\ tubes[id].current_volume.n >= 0
            /\ tubes[id].current_volume.n
                   = InitLedgerTubes[id].current_volume.n - TakenFrom(id, Len(usages))
            /\ TakenFrom(id, Len(usages)) <= InitLedgerTubes[id].current_volume.n

====
